---- MODULE Spec2Model ----
(***************************************************************************)
(* PurpleAir integration: the sensor fusion and AQI pipeline.              *)
(*                                                                         *)
(* Numbers.  Every reading (particulate matter, humidity, temperature,     *)
(* pressure) is an integer count of hundredths: 30.04 is 3004.  round(x,1) *)
(* then rounds to a multiple of 10.  Python's None is the value None       *)
(* below, which no reading takes.                                          *)
(***************************************************************************)
EXTENDS Integers, Sequences, FiniteSets, TLC

VARIABLES
    WARNED_SENSORS,  \* util.WARNED_SENSORS: list of station ids already warned
    warnings,        \* the _LOGGER.warning records written by the last operation
    call,            \* the last operation and its arguments
    ret,             \* what the last direct call of a utility function returned
    results,         \* legacy: the raw records the last update() fetched
    sensors,         \* legacy: the value the last update() returned
    raised,          \* the exception the last operation raised, "" when none
    streak,          \* per station: warnings logged while it stayed degraded
    logged,          \* per station: warnings logged so far
    cache,           \* v1: PurpleAirApiV1._cache, per station its deque
    sensor_data,     \* v1: the dictionary the last operation returned or changed
    warn_missing_fields, \* v1: PurpleAirApiV1._warn_missing_fields
    info,            \* per station: the old entries the last operation logged
    steady,          \* v1: the polls so far, each a scan interval after the last
    api,             \* coordinator: whether PurpleAirDataUpdateCoordinator.api is set
    api_sensors,     \* coordinator: the stations in api.sensors
    own_cache,       \* legacy: PurpleAirApi._cache of each API instance
    global_cache,    \* legacy: the cache kept as add_aqi_calculations.cache
    warn_stale,      \* per sensor entity: its _warn_stale
    warn_readings,   \* per sensor entity: its _warn_readings
    stale_warned,    \* per sensor entity: a stale warning was logged since it
                     \* was last available
    last_device_refresh, \* coordinator: whole days since _last_device_refresh,
                     \* None when it is not set
    request,         \* coordinator: the last request of a poll, in a sequence:
                     \* its stations, its do_device_update, whether it is
                     \* suspended, whether no station was registered since,
                     \* and quiet_days when it was made
    awaiting,        \* the stations registered since the last request that
                     \* included them
    quiet_days,      \* whole days since a poll returned device data with no
                     \* registration since it was requested, None without one
    config_entry,    \* the config entry async_migrate_entry was last called on
    expected_entries, \* domain_data.expected_entries, None before async_setup
    legacy_api,      \* whether domain_data.api and domain_data.coordinator are set
    legacy_sensors,  \* legacy: PurpleAirApi.sensors of domain_data.api
    coordinator_data, \* legacy: the sensor ids with data in coordinator.data
    refreshes,       \* the first refreshes requested so far
    v1_sensors       \* v1: PurpleAirApiV1.sensors of an API instance

legacyvars == <<WARNED_SENSORS, results, sensors, streak, logged>>

v1vars == <<cache, sensor_data, warn_missing_fields, info>>

entityvars == <<warn_stale, warn_readings, stale_warned>>

sidevars ==
    <<steady, api, api_sensors, own_cache, global_cache, warn_stale,
      warn_readings, stale_warned>>

refreshvars == <<last_device_refresh, request, awaiting, quiet_days>>

entryvars == <<config_entry>>

startupvars ==
    <<expected_entries, legacy_api, legacy_sensors, coordinator_data,
      refreshes>>

registryvars == <<v1_sensors>>

setupvars == <<entryvars, startupvars, registryvars>>

vars ==
    <<WARNED_SENSORS, warnings, call, ret, results, sensors, raised, streak,
      logged, cache, sensor_data, warn_missing_fields, info, steady, api,
      api_sensors, own_cache, global_cache, warn_stale, warn_readings,
      stale_warned, last_device_refresh, request, awaiting, quiet_days,
      config_entry,
      expected_entries,
      legacy_api,
      legacy_sensors,
      coordinator_data,
      refreshes, v1_sensors>>

----------------------------------------------------------------------------
(* Values and helpers                                                      *)

None == 0 - 1000000000

Stations == {"100", "200"}

\* The PurpleAirApi instances of the process.
Instances == {1, 2}

Range(s) == {s[i] : i \in DOMAIN s}

Abs(x) == IF x < 0 THEN 0 - x ELSE x

Min(a, b) == IF a < b THEN a ELSE b

\* bool(x) of an optional number: None and 0 are falsy.
Truthy(x) == x # None /\ x # 0

\* round(n / d) for d > 0, to the nearest integer, a tie to the even one.
RoundDiv(n, d) ==
    LET q == n \div d
        r == n % d
    IN  IF 2 * r < d THEN q
        ELSE IF 2 * r > d THEN q + 1
        ELSE IF q % 2 = 0 THEN q ELSE q + 1

\* round(x, 1)
Round1(x) == 10 * RoundDiv(x, 10)

\* round((a + b) / 2, 1)
RoundAvg1(a, b) == 10 * RoundDiv(a + b, 20)

----------------------------------------------------------------------------
(* purple_air_api/const.py                                                 *)

API_ATTR_PM1 == "pm1_0_atm"
API_ATTR_PM10 == "pm10_0_atm"
API_ATTR_PM25 == "pm2_5_atm"
API_ATTR_PM25_AQI == "pm2_5_atm_aqi"
API_ATTR_PM25_AQI_RAW == "pm2_5_atm_aqi_raw"
API_ATTR_HUMIDITY == "humidity"
API_ATTR_TEMP_F == "temp_f"
API_ATTR_PRESSURE == "pressure"

JSON_PROPERTIES ==
    <<API_ATTR_PM1, API_ATTR_PM25, API_ATTR_PM10, API_ATTR_HUMIDITY,
      API_ATTR_TEMP_F, API_ATTR_PRESSURE>>

JsonProps == Range(JSON_PROPERTIES)

\* The particulate metrics, reported by both channels.
PM_PROPERTIES == {API_ATTR_PM1, API_ATTR_PM25, API_ATTR_PM10}

\* The validity ceiling of a particulate reading (1000.00).
MAX_PM_READING == 1000 * 100

----------------------------------------------------------------------------
(* purple_air_api/util.py: the channel merge and its warnings              *)

\* list.remove(x): drops the first occurrence of x.
RemoveFirst(s, x) ==
    LET i == CHOOSE k \in DOMAIN s : s[k] = x /\ \A j \in 1..(k - 1) : s[j] # x
    IN  SubSeq(s, 1, i - 1) \o SubSeq(s, i + 1, Len(s))

\* A clear_sensor_warning that forgets to remove the station.
clear_sensor_warning_keeps(W, pa_sensor_id) == W

\* clear_sensor_warning: the new WARNED_SENSORS.
clear_sensor_warning(W, pa_sensor_id) ==
    IF pa_sensor_id \in Range(W) THEN RemoveFirst(W, pa_sensor_id) ELSE W

\* warn_sensor_channel_bad: the new WARNED_SENSORS and the log with the
\* warning appended, unless the station is warned already.
warn_sensor_channel_bad(W, log, pa_sensor_id, prop, channel) ==
    IF pa_sensor_id \in Range(W)
    THEN [W |-> W, log |-> log]
    ELSE [W |-> Append(W, pa_sensor_id),
          log |-> Append(log, [sensor |-> pa_sensor_id, prop |-> prop,
                               channel |-> channel])]

\* A get_pm_reading whose agreement test is diff <= 45.
get_pm_reading_le45(W, log, pa_sensor_id, prop, a_value, b_value) ==
    LET a_valid == a_value < MAX_PM_READING
        b_valid == b_value < MAX_PM_READING
        diff == Abs(a_value - b_value)
        warn(ch) == warn_sensor_channel_bad(W, log, pa_sensor_id, prop, ch)
    IN  IF prop \notin PM_PROPERTIES \/ (a_valid /\ b_valid)
        THEN [value |-> RoundAvg1(a_value, b_value),
              confidence |-> IF prop \notin PM_PROPERTIES \/ diff <= 4500
                             THEN "good" ELSE "questionable",
              W |-> clear_sensor_warning(W, pa_sensor_id), log |-> log]
        ELSE IF a_valid
        THEN [value |-> Round1(a_value), confidence |-> "single - b channel bad",
              W |-> warn("B").W, log |-> warn("B").log]
        ELSE IF b_valid
        THEN [value |-> Round1(b_value), confidence |-> "single - a channel bad",
              W |-> warn("A").W, log |-> warn("A").log]
        ELSE [value |-> None, confidence |-> "invalid",
              W |-> warn("A and B").W, log |-> warn("A and B").log]

\* A get_pm_reading that takes a reading at the ceiling for a valid one.
get_pm_reading_ceiling(W, log, pa_sensor_id, prop, a_value, b_value) ==
    LET a_valid == a_value <= MAX_PM_READING
        b_valid == b_value <= MAX_PM_READING
        diff == Abs(a_value - b_value)
        warn(ch) == warn_sensor_channel_bad(W, log, pa_sensor_id, prop, ch)
    IN  IF prop \notin PM_PROPERTIES \/ (a_valid /\ b_valid)
        THEN [value |-> RoundAvg1(a_value, b_value),
              confidence |-> IF prop \notin PM_PROPERTIES \/ diff < 4500
                             THEN "good" ELSE "questionable",
              W |-> clear_sensor_warning(W, pa_sensor_id), log |-> log]
        ELSE IF a_valid
        THEN [value |-> Round1(a_value), confidence |-> "single - b channel bad",
              W |-> warn("B").W, log |-> warn("B").log]
        ELSE IF b_valid
        THEN [value |-> Round1(b_value), confidence |-> "single - a channel bad",
              W |-> warn("A").W, log |-> warn("A").log]
        ELSE [value |-> None, confidence |-> "invalid",
              W |-> warn("A and B").W, log |-> warn("A and B").log]

\* A get_pm_reading that gives no value for a faulty channel of a station
\* that is warned already.
get_pm_reading_warned(W, log, pa_sensor_id, prop, a_value, b_value) ==
    LET a_valid == a_value < MAX_PM_READING
        b_valid == b_value < MAX_PM_READING
        diff == Abs(a_value - b_value)
        warn(ch) == warn_sensor_channel_bad(W, log, pa_sensor_id, prop, ch)
        known == pa_sensor_id \in Range(W)
    IN  IF prop \notin PM_PROPERTIES
        THEN [value |-> RoundAvg1(a_value, b_value), confidence |-> "good",
              W |-> clear_sensor_warning(W, pa_sensor_id), log |-> log]
        ELSE IF a_valid /\ b_valid
        THEN [value |-> RoundAvg1(a_value, b_value),
              confidence |-> IF diff < 4500 THEN "good" ELSE "questionable",
              W |-> clear_sensor_warning(W, pa_sensor_id), log |-> log]
        ELSE IF a_valid /\ ~b_valid
        THEN [value |-> IF known THEN None ELSE Round1(a_value),
              confidence |-> "single - b channel bad",
              W |-> warn("B").W, log |-> warn("B").log]
        ELSE IF ~a_valid /\ b_valid
        THEN [value |-> IF known THEN None ELSE Round1(b_value),
              confidence |-> "single - a channel bad",
              W |-> warn("A").W, log |-> warn("A").log]
        ELSE [value |-> None, confidence |-> "invalid",
              W |-> warn("A and B").W, log |-> warn("A and B").log]

\* get_pm_reading: the (value, confidence) it returns, with the
\* WARNED_SENSORS and the log it leaves.
get_pm_reading(W, log, pa_sensor_id, prop, a_value, b_value) ==
    LET a_valid == a_value < MAX_PM_READING
        b_valid == b_value < MAX_PM_READING
        diff == Abs(a_value - b_value)
        warn(ch) == warn_sensor_channel_bad(W, log, pa_sensor_id, prop, ch)
    IN  IF prop \notin PM_PROPERTIES
        THEN [value |-> RoundAvg1(a_value, b_value), confidence |-> "good",
              W |-> clear_sensor_warning(W, pa_sensor_id), log |-> log]
        ELSE IF a_valid /\ b_valid
        THEN [value |-> RoundAvg1(a_value, b_value),
              confidence |-> IF diff < 4500 THEN "good" ELSE "questionable",
              W |-> clear_sensor_warning(W, pa_sensor_id), log |-> log]
        ELSE IF a_valid /\ ~b_valid
        THEN [value |-> Round1(a_value), confidence |-> "single - b channel bad",
              W |-> warn("B").W, log |-> warn("B").log]
        ELSE IF ~a_valid /\ b_valid
        THEN [value |-> Round1(b_value), confidence |-> "single - a channel bad",
              W |-> warn("A").W, log |-> warn("A").log]
        ELSE [value |-> None, confidence |-> "invalid",
              W |-> warn("A and B").W, log |-> warn("A and B").log]

\* The confidence labels of a merge with a faulty channel.
BadLabels == {"single - a channel bad", "single - b channel bad", "invalid"}

\* The number of warnings of a log that name the station.
WarningsFor(log, s) == Cardinality({i \in DOMAIN log : log[i].sensor = s})

----------------------------------------------------------------------------
(* AQI breakpoints and calc_aqi                                            *)

\* AQI_BREAKPOINTS["pm2_5"], in list order; pm_low and pm_high in
\* hundredths.  The first entry is in the list twice.
AQI_BREAKPOINTS ==
    <<[pm_low |-> 50050, pm_high |-> 99990, aqi_low |-> 501, aqi_high |-> 999],
      [pm_low |-> 50050, pm_high |-> 99990, aqi_low |-> 501, aqi_high |-> 999],
      [pm_low |-> 35050, pm_high |-> 50040, aqi_low |-> 401, aqi_high |-> 500],
      [pm_low |-> 25050, pm_high |-> 35040, aqi_low |-> 301, aqi_high |-> 400],
      [pm_low |-> 15050, pm_high |-> 25040, aqi_low |-> 201, aqi_high |-> 300],
      [pm_low |-> 5550, pm_high |-> 15040, aqi_low |-> 151, aqi_high |-> 200],
      [pm_low |-> 3550, pm_high |-> 5540, aqi_low |-> 101, aqi_high |-> 150],
      [pm_low |-> 1210, pm_high |-> 3540, aqi_low |-> 51, aqi_high |-> 100],
      [pm_low |-> 0, pm_high |-> 1200, aqi_low |-> 0, aqi_high |-> 50]>>

\* A variant that looks every index up in the PM2.5 table.
calc_aqi_any_index(value, index) ==
    LET hits == {i \in DOMAIN AQI_BREAKPOINTS :
                    /\ AQI_BREAKPOINTS[i].pm_low <= value
                    /\ value <= AQI_BREAKPOINTS[i].pm_high}
    IN  IF hits = {} THEN None
        ELSE LET aqi_bp == AQI_BREAKPOINTS[CHOOSE i \in hits :
                                               \A j \in hits : i <= j]
                 pm_range == aqi_bp.pm_high - aqi_bp.pm_low
             IN  RoundDiv((aqi_bp.aqi_high - aqi_bp.aqi_low)
                              * (value - aqi_bp.pm_low)
                              + aqi_bp.aqi_low * pm_range, pm_range)

\* A variant that interpolates on the value, not on its distance from the
\* low end of the band.
calc_aqi_no_offset(value, index) ==
    IF index # "pm2_5" THEN None
    ELSE LET hits == {i \in DOMAIN AQI_BREAKPOINTS :
                        /\ AQI_BREAKPOINTS[i].pm_low <= value
                        /\ value <= AQI_BREAKPOINTS[i].pm_high}
         IN  IF hits = {} THEN None
             ELSE LET aqi_bp == AQI_BREAKPOINTS[CHOOSE i \in hits :
                                                    \A j \in hits : i <= j]
                      pm_range == aqi_bp.pm_high - aqi_bp.pm_low
                  IN  RoundDiv((aqi_bp.aqi_high - aqi_bp.aqi_low) * value
                                   + aqi_bp.aqi_low * pm_range, pm_range)

\* A variant that interpolates from the high end of the AQI range down.
calc_aqi_descending(value, index) ==
    IF index # "pm2_5" THEN None
    ELSE LET hits == {i \in DOMAIN AQI_BREAKPOINTS :
                        /\ AQI_BREAKPOINTS[i].pm_low <= value
                        /\ value <= AQI_BREAKPOINTS[i].pm_high}
         IN  IF hits = {} THEN None
             ELSE LET aqi_bp == AQI_BREAKPOINTS[CHOOSE i \in hits :
                                                    \A j \in hits : i <= j]
                      pm_range == aqi_bp.pm_high - aqi_bp.pm_low
                  IN  RoundDiv(aqi_bp.aqi_high * pm_range
                                   - (aqi_bp.aqi_high - aqi_bp.aqi_low)
                                       * (value - aqi_bp.pm_low), pm_range)

\* calc_aqi(value, index): the first breakpoint that holds the value,
\* interpolated and rounded; None for an unknown index or no breakpoint.
\* The interpolation is a product of doubles, which decides where the
\* exact value is a tie.  Of the values that are whole tenths the ties
\* are 0.6, 1.8, 3.0, ..., 11.4; round() takes all of them to the even
\* integer but 5.4, whose double product is above 22.5 and gives 23.
calc_aqi(value, index) ==
    IF index # "pm2_5" THEN None
    ELSE LET hits == {i \in DOMAIN AQI_BREAKPOINTS :
                        /\ AQI_BREAKPOINTS[i].pm_low <= value
                        /\ value <= AQI_BREAKPOINTS[i].pm_high}
         IN  IF hits = {} THEN None
             ELSE LET aqi_bp == AQI_BREAKPOINTS[CHOOSE i \in hits :
                                                    \A j \in hits : i <= j]
                      aqi_range == aqi_bp.aqi_high - aqi_bp.aqi_low
                      pm_range == aqi_bp.pm_high - aqi_bp.pm_low
                      aqi_c == value - aqi_bp.pm_low
                  IN  IF value = 540 THEN 23
                      ELSE RoundDiv(aqi_range * aqi_c
                                        + aqi_bp.aqi_low * pm_range, pm_range)

----------------------------------------------------------------------------
(* purple_air_api/model.py and util.py: the legacy pipeline                *)

\* A key a raw record does not have.
Absent == "absent"

\* The attributes of a PurpleAirApiSensorReading.
ReadingAttrs ==
    JsonProps \cup {API_ATTR_PM25_AQI, API_ATTR_PM25_AQI_RAW, "pm2_5_cf_1"}

NoValues == [p \in JsonProps |-> None]

\* PurpleAirApiSensorData with a new PurpleAirApiSensorReading.
NewSensorData(pa_sensor_id, result) ==
    [pa_sensor_id |-> pa_sensor_id,
     label |-> result.Label,
     last_seen |-> result.LastSeen,
     channels |-> [A |-> NoValues, B |-> NoValues],
     value |-> [a \in ReadingAttrs |-> None],
     confidence |-> [a \in ReadingAttrs |-> ""],
     status |-> [a \in ReadingAttrs |-> ""]]

\* The index of the station's entry in the dictionary, 0 when it has none.
IndexOf(dict, pa_sensor_id) ==
    IF \E i \in DOMAIN dict : dict[i].pa_sensor_id = pa_sensor_id
    THEN CHOOSE i \in DOMAIN dict : dict[i].pa_sensor_id = pa_sensor_id
    ELSE 0

\* PurpleAirApiSensorReading.both_channels_have_data
both_channels_have_data(readings) ==
    /\ \E p \in JsonProps : readings.channels.A[p] # None
    /\ \E p \in JsonProps : readings.channels.B[p] # None

\* PurpleAirApiSensorReading.set_value: the confidence is kept when the
\* one given is None or empty.
set_value(readings, attr, value, confidence) ==
    [readings EXCEPT !.value[attr] = value,
                     !.confidence[attr] =
                         IF confidence # "" THEN confidence ELSE @]

\* build_sensors, one record: a record of an unknown station adds the
\* entry with that record's metadata; its values become the channel's.
BuildRecord(dict, result) ==
    LET pa_sensor_id ==
            IF result.ParentID # Absent THEN result.ParentID ELSE result.ID
        known == IndexOf(dict, pa_sensor_id) # 0
        d2 == IF known THEN dict
              ELSE Append(dict, NewSensorData(pa_sensor_id, result))
        i == IndexOf(d2, pa_sensor_id)
        channel == IF result.ParentID # Absent THEN "B" ELSE "A"
    IN  [d2 EXCEPT ![i].channels[channel] = result.vals]

\* build_sensors: result["ID"] is evaluated for every record, being the
\* default argument of result.get("ParentID", ...), and raises KeyError
\* for a record without ID.
RECURSIVE BuildFrom(_, _, _)
BuildFrom(rs, i, dict) ==
    IF i > Len(rs) THEN [raised |-> "", sensors |-> dict]
    ELSE IF rs[i].ID = Absent THEN [raised |-> "KeyError", sensors |-> <<>>]
    ELSE BuildFrom(rs, i + 1, BuildRecord(dict, rs[i]))

build_sensors(rs) == BuildFrom(rs, 1, <<>>)

\* apply_corrections: temperature - 8 and humidity + 4, each applied when
\* the reading is truthy.
apply_corrections(readings) ==
    LET t == readings.value[API_ATTR_TEMP_F]
        h == readings.value[API_ATTR_HUMIDITY]
    IN  [readings EXCEPT
            !.value[API_ATTR_TEMP_F] = IF Truthy(t) THEN t - 800 ELSE t,
            !.value[API_ATTR_HUMIDITY] = IF Truthy(h) THEN h + 400 ELSE h]

\* calculate_sensor_values, one property of one station.  st holds the
\* station's entry, WARNED_SENSORS and the log.
MergeProp(st, prop) ==
    LET r == st.sensor
        a_value == r.channels.A[prop]
        b_value == r.channels.B[prop]
    IN  IF both_channels_have_data(r)
        THEN IF Truthy(a_value)
             THEN IF Truthy(b_value)
                  THEN LET m == get_pm_reading(st.W, st.log, r.pa_sensor_id,
                                               prop, a_value, b_value)
                       IN  [sensor |-> set_value(r, prop, m.value, m.confidence),
                            W |-> m.W, log |-> m.log]
                  ELSE [st EXCEPT !.sensor =
                            set_value(r, prop, Round1(a_value), "single")]
             ELSE [st EXCEPT !.sensor = set_value(r, prop, None, "")]
        ELSE IF Truthy(a_value)
             THEN [st EXCEPT !.sensor =
                       set_value(r, prop, Round1(a_value), "good")]
             ELSE [st EXCEPT !.sensor = set_value(r, prop, None, "")]

RECURSIVE MergeProps(_, _)
MergeProps(st, k) ==
    IF k > Len(JSON_PROPERTIES) THEN st
    ELSE MergeProps(MergeProp(st, JSON_PROPERTIES[k]), k + 1)

\* calculate_sensor_values, one station: the merge of every property, the
\* corrections, and clear_temporary_data.
CalculateSensor(sensor, W, log) ==
    LET st == MergeProps([sensor |-> sensor, W |-> W, log |-> log], 1)
        corrected == apply_corrections(st.sensor)
    IN  [st EXCEPT !.sensor =
            [corrected EXCEPT !.channels = [A |-> NoValues, B |-> NoValues]]]

\* calculate_sensor_values: the stations in dictionary order.
RECURSIVE CalculateFrom(_, _, _, _)
CalculateFrom(dict, i, W, log) ==
    IF i > Len(dict) THEN [sensors |-> dict, W |-> W, log |-> log]
    ELSE LET st == CalculateSensor(dict[i], W, log)
         IN  CalculateFrom([dict EXCEPT ![i] = st.sensor], i + 1, st.W, st.log)

calculate_sensor_values(dict, W, log) == CalculateFrom(dict, 1, W, log)

----------------------------------------------------------------------------
(* purple_air_api/v1: the EPA value cache and add_aqi_calculations         *)
(*                                                                         *)
(* An EpaAvgValue is [hum, pm25, age]: age is the time since its           *)
(* timestamp, in seconds, which is all the code reads of the timestamp     *)
(* (timestamp < utcnow() - 3600 is age > 3600).  An age above an hour is   *)
(* kept as one hour and a second.                                          *)

\* deque(maxlen=12)
CacheMaxLen == 12

\* timedelta(seconds=3600)
HourSeconds == 3600

\* The cache after dt seconds.
Older(c, dt) ==
    [s \in DOMAIN c |->
        [i \in DOMAIN c[s] |->
            [c[s][i] EXCEPT !.age = Min(@ + dt, HourSeconds + 1)]]]

\* An append on a deque without maxlen.
DequeAppend_unbounded(q, v) == Append(q, v)

\* deque.append on a deque of maxlen 12: a full deque drops its left end.
DequeAppend(q, v) ==
    IF Len(q) = CacheMaxLen THEN Append(Tail(q), v) ELSE Append(q, v)

\* A _clean_expired_cache_entries of entries older than half an hour.
clean_expired_cache_entries_half(epa_avg) ==
    LET expired_count ==
            Cardinality({i \in DOMAIN epa_avg : 2 * epa_avg[i].age > HourSeconds})
    IN  SubSeq(epa_avg, expired_count + 1, Len(epa_avg))

\* A _clean_expired_cache_entries of one popleft() at most.
clean_expired_cache_entries_one(epa_avg) ==
    IF \E i \in DOMAIN epa_avg : epa_avg[i].age > HourSeconds
    THEN Tail(epa_avg) ELSE epa_avg

\* _clean_expired_cache_entries: as many popleft() as there are entries
\* older than an hour.
clean_expired_cache_entries(epa_avg) ==
    LET expired_count ==
            Cardinality({i \in DOMAIN epa_avg : epa_avg[i].age > HourSeconds})
    IN  SubSeq(epa_avg, expired_count + 1, Len(epa_avg))

RECURSIVE SumOf(_, _, _)
SumOf(q, field, i) ==
    IF i > Len(q) THEN 0 ELSE q[i][field] + SumOf(q, field, i + 1)

\* round(fsum(...) / len(epa_avg), 5), in units of 0.00001.
Avg5(q, field) == RoundDiv(SumOf(q, field, 1) * 1000, Len(q))

\* k + x / d rounded to the nearest integer, a tie to the even one (d > 0).
RoundDivPlus(k, x, d) ==
    LET q == k + (x \div d)
        r == x % d
    IN  IF 2 * r < d THEN q
        ELSE IF 2 * r > d THEN q + 1
        ELSE IF q % 2 = 0 THEN q ELSE q + 1

\* round(max(0, 0.52 * pm - 0.086 * hum + 5.75), 1) in hundredths, for the
\* averages in units of 0.00001.  In tenths the value is
\* (520 pm - 86 hum + 575000000) / 10^7; with pm = 10^5 q + r this is
\* 5 q + (2000000 q + 520 r - 86 hum + 575000000) / 10^7, which keeps every
\* intermediate value within 32 bits.
EpaLinear(pm, hum) ==
    LET q == pm \div 100000
        r == pm % 100000
        x == 2000000 * q + 520 * r - 86 * hum + 575000000
    IN  IF 5 * q + (x \div 10000000) < 0 THEN 0
        ELSE 10 * RoundDivPlus(5 * q, x, 10000000)

\* round(0.46 * pm + 0.000393 * pm * pm + 2.97, 1) in hundredths (the value
\* is positive).  In tenths it is
\* (393 pm^2 + 46 * 10^9 pm + 29700 * 10^12) / 10^15, computed on the
\* base-1000 digits a2 a1 a0 of pm: n0..n5 are the digits of the numerator
\* after the carries, n5 the integer part and n4..n0 the fraction.
EpaQuadratic(pm) ==
    LET a0 == pm % 1000
        a1 == (pm \div 1000) % 1000
        a2 == pm \div 1000000
        m0 == 393 * (a0 * a0)
        m1 == 393 * (2 * a0 * a1) + (m0 \div 1000)
        m2 == 393 * (2 * a0 * a2 + a1 * a1) + (m1 \div 1000)
        m3 == 393 * (2 * a1 * a2) + 46 * a0 + (m2 \div 1000)
        m4 == 393 * (a2 * a2) + 46 * a1 + 29700 + (m3 \div 1000)
        n5 == 46 * a2 + (m4 \div 1000)
        n4 == m4 % 1000
        rest == (m3 % 1000) + (m2 % 1000) + (m1 % 1000) + (m0 % 1000)
        up == n4 > 500 \/ (n4 = 500 /\ rest > 0)
        tie == n4 = 500 /\ rest = 0
    IN  10 * (IF up \/ (tie /\ n5 % 2 = 1) THEN n5 + 1 ELSE n5)

\* pm25_corrected of the v1 add_aqi_calculations, in hundredths.
EpaCorrected(pm25cf1_avg, humidity_avg) ==
    IF pm25cf1_avg > 343 * 100000
    THEN EpaQuadratic(pm25cf1_avg)
    ELSE EpaLinear(pm25cf1_avg, humidity_avg)

\* pm2_5_aqi_epa_status: None, "stable" or the f-string of the minutes left.
NoStatus == "None"

\* A status that is "stable" one sample early.
StatusText_early(count) ==
    IF count < CacheMaxLen - 1 THEN "calculating (5 mins left)" ELSE "stable"

StatusText(count) ==
    IF count < CacheMaxLen
    THEN CASE (CacheMaxLen - count) * 5 = 5 -> "calculating (5 mins left)"
           [] (CacheMaxLen - count) * 5 = 10 -> "calculating (10 mins left)"
           [] (CacheMaxLen - count) * 5 = 15 -> "calculating (15 mins left)"
           [] (CacheMaxLen - count) * 5 = 20 -> "calculating (20 mins left)"
           [] (CacheMaxLen - count) * 5 = 25 -> "calculating (25 mins left)"
           [] (CacheMaxLen - count) * 5 = 30 -> "calculating (30 mins left)"
           [] (CacheMaxLen - count) * 5 = 35 -> "calculating (35 mins left)"
           [] (CacheMaxLen - count) * 5 = 40 -> "calculating (40 mins left)"
           [] (CacheMaxLen - count) * 5 = 45 -> "calculating (45 mins left)"
           [] (CacheMaxLen - count) * 5 = 50 -> "calculating (50 mins left)"
           [] (CacheMaxLen - count) * 5 = 55 -> "calculating (55 mins left)"
           [] OTHER -> "calculating (60 mins left)"
    ELSE "stable"

\* A new v1 SensorReading, every attribute at its default.
NewSensorReading(pa_sensor_id) ==
    [pa_sensor_id |-> pa_sensor_id,
     humidity |-> None, temperature |-> None,
     pm2_5_atm |-> None, pm2_5_cf_1 |-> None, last_seen |-> None,
     pm2_5_aqi_instant |-> None, pm2_5_aqi_epa |-> None,
     pm2_5_aqi_epa_status |-> NoStatus]

\* The EPA branch of add_aqi_calculations for one station: the sample is
\* appended, the expired ones are dropped and the corrected AQI and its
\* status are set from what remains.
EpaBranch(sensor, queue) ==
    LET appended == DequeAppend(queue, [hum |-> sensor.humidity,
                                        pm25 |-> sensor.pm2_5_cf_1, age |-> 0])
        epa_avg == clean_expired_cache_entries(appended)
        humidity_avg == Avg5(epa_avg, "hum")
        pm25cf1_avg == Avg5(epa_avg, "pm25")
        pm25_corrected == EpaCorrected(pm25cf1_avg, humidity_avg)
    IN  [sensor |-> [sensor EXCEPT
                        !.pm2_5_aqi_epa = calc_aqi(pm25_corrected, "pm2_5"),
                        !.pm2_5_aqi_epa_status = StatusText(Len(epa_avg))],
         queue |-> epa_avg,
         expired |-> Len(appended) - Len(epa_avg)]

\* The instant AQI of add_aqi_calculations for one station.
InstantAqi(sensor) ==
    IF sensor.pm2_5_atm # None
    THEN [sensor EXCEPT !.pm2_5_aqi_instant = calc_aqi(sensor.pm2_5_atm, "pm2_5")]
    ELSE sensor

\* An add_aqi_calculations that tests the two readings for truth.
AddAqiSensor_truthy(sensor, queue) ==
    IF Truthy(sensor.pm2_5_cf_1) /\ Truthy(sensor.humidity)
    THEN EpaBranch(InstantAqi(sensor), queue)
    ELSE [sensor |-> InstantAqi(sensor), queue |-> queue, expired |-> 0]

\* add_aqi_calculations (v1) for one station and its queue of the cache.
AddAqiSensor(sensor, queue) ==
    IF sensor.pm2_5_cf_1 # None /\ sensor.humidity # None
    THEN EpaBranch(InstantAqi(sensor), queue)
    ELSE [sensor |-> InstantAqi(sensor), queue |-> queue, expired |-> 0]

\* A variant that also drops the old entries of the queues of the stations
\* it does not process.
add_aqi_calculations_sweep(data, c) ==
    [sensors |-> [s \in DOMAIN data |-> AddAqiSensor(data[s], c[s]).sensor],
     cache |-> [s \in DOMAIN c |->
                   IF s \in DOMAIN data /\ data[s].pm2_5_cf_1 # None
                         /\ data[s].humidity # None
                   THEN AddAqiSensor(data[s], c[s]).queue
                   ELSE clean_expired_cache_entries(c[s])],
     info |-> [s \in DOMAIN c |->
                  IF s \in DOMAIN data
                  THEN AddAqiSensor(data[s], c[s]).expired ELSE 0]]

\* add_aqi_calculations (v1): every station of the dictionary, each on
\* its own queue; cache[id] makes the queue of a station that has none.
\* info is the count of old entries logged for each station, 0 for none.
add_aqi_calculations(data, c) ==
    [sensors |-> [s \in DOMAIN data |-> AddAqiSensor(data[s], c[s]).sensor],
     cache |-> [s \in DOMAIN c |->
                   IF s \in DOMAIN data
                   THEN AddAqiSensor(data[s], c[s]).queue ELSE c[s]],
     info |-> [s \in DOMAIN c |->
                  IF s \in DOMAIN data
                  THEN AddAqiSensor(data[s], c[s]).expired ELSE 0]]

\* apply_sensor_corrections for one station: temperature - 8 and
\* humidity + 4, each applied when the reading is truthy.
CorrectSensor(sensor) ==
    [sensor EXCEPT
        !.temperature = IF Truthy(@) THEN @ - 800 ELSE @,
        !.humidity = IF Truthy(@) THEN @ + 400 ELSE @]

\* A variant that corrects every station twice.
apply_sensor_corrections_twice(data) ==
    [s \in DOMAIN data |-> CorrectSensor(CorrectSensor(data[s]))]

apply_sensor_corrections(data) == [s \in DOMAIN data |-> CorrectSensor(data[s])]

----------------------------------------------------------------------------
(* purple_air_api/util.py: the legacy add_aqi_calculations                 *)
(*                                                                         *)
(* A cache maps every station to its queue, empty for a station that has   *)
(* no key.  A cache with no key is falsy, as is the cache attribute of the *)
(* function when it is not set: both are the cache of empty queues.        *)

\* round(0.534 * pm - 0.0844 * hum + 5.604, 1) in hundredths, for the
\* averages in units of 0.00001; it is not clamped.  In tenths the value is
\* (1335 pm - 211 hum + 1401000000) / 25000000; with pm = 10^5 (50 a + b)
\* + r this is 5 (50 a + b) + 17 a + 56
\* + (8500000 b + 1335 r - 211 hum + 1000000) / 25000000, which keeps
\* every intermediate value within 32 bits.
LegacyEpaCorrected(pm, hum) ==
    LET q == pm \div 100000
        r == pm % 100000
        a == q \div 50
        b == q % 50
        x == 8500000 * b + 1335 * r - 211 * hum + 1000000
    IN  10 * RoundDivPlus(5 * q + 17 * a + 56, x, 25000000)

\* "if not cache": the cache has no key.
Falsy(c) == \A s \in DOMAIN c : c[s] = <<>>

\* The legacy add_aqi_calculations, one station on its queue: the instant
\* AQI of a truthy pm2_5_atm, and, when pm2_5_cf_1 and humidity are not
\* None, the sample, the eviction, and the AQI of the corrected average
\* with its status.
LegacyAqi(r, queue) ==
    LET confidence == r.confidence[API_ATTR_PM25]
        pm25atm == r.value[API_ATTR_PM25]
        raw == IF Truthy(pm25atm)
               THEN set_value(r, API_ATTR_PM25_AQI_RAW,
                              calc_aqi(pm25atm, "pm2_5"), confidence)
               ELSE r
        appended == DequeAppend(queue, [hum |-> r.value[API_ATTR_HUMIDITY],
                                        pm25 |-> r.value["pm2_5_cf_1"],
                                        age |-> 0])
        epa_avg == clean_expired_cache_entries(appended)
        pm25_corrected == LegacyEpaCorrected(Avg5(epa_avg, "pm25"),
                                             Avg5(epa_avg, "hum"))
        epa == set_value(raw, API_ATTR_PM25_AQI,
                         calc_aqi(pm25_corrected, "pm2_5"), confidence)
    IN  IF r.value["pm2_5_cf_1"] # None /\ r.value[API_ATTR_HUMIDITY] # None
        THEN [sensor |-> [epa EXCEPT !.status[API_ATTR_PM25_AQI] =
                                        StatusText(Len(epa_avg))],
              queue |-> epa_avg]
        ELSE [sensor |-> raw, queue |-> queue]

\* The legacy add_aqi_calculations(pa_sensors, cache=c), g being the cache
\* attribute of the function: a falsy c is replaced by g, and a falsy g by
\* a new cache that becomes the attribute.
legacy_add_aqi_calculations(dict, c, g) ==
    LET used == IF Falsy(c) THEN g ELSE c
        after == [s \in DOMAIN used |->
                    IF IndexOf(dict, s) # 0
                    THEN LegacyAqi(dict[IndexOf(dict, s)], used[s]).queue
                    ELSE used[s]]
    IN  [sensors |-> [i \in DOMAIN dict |->
                        LegacyAqi(dict[i], used[dict[i].pa_sensor_id]).sensor],
         cache |-> IF Falsy(c) THEN c ELSE after,
         global |-> IF Falsy(c) THEN after ELSE g]

----------------------------------------------------------------------------
(* sensor.py and sensor_v1.py: the availability of a sensor entity         *)

\* The sensor entities: a primary and another legacy PurpleAirSensor, and a
\* v1 PurpleAirAqiSensor.
Entities == {"legacy_primary", "legacy_other", "v1_aqi"}

\* timedelta.seconds of a difference of `elapsed` seconds: the seconds
\* within the day (of 86400 seconds), the days being another attribute.
TimedeltaSeconds(elapsed) == elapsed % 86400

\* PurpleAirSensor.available (legacy): [value, warn_stale, warn_readings,
\* log] for a station last updated `elapsed` seconds ago.
legacy_available(primary, has_data, elapsed, confidence, stale, readings) ==
    IF ~has_data
    THEN [value |-> FALSE, warn_stale |-> stale, warn_readings |-> readings,
          log |-> <<>>]
    ELSE IF TimedeltaSeconds(elapsed) > 5400
    THEN [value |-> FALSE,
          warn_stale |-> IF primary /\ ~stale THEN TRUE ELSE stale,
          warn_readings |-> readings,
          log |-> IF primary /\ ~stale THEN <<"stale">> ELSE <<>>]
    ELSE IF confidence = "invalid"
    THEN [value |-> FALSE, warn_stale |-> stale, warn_readings |-> TRUE,
          log |-> IF ~readings THEN <<"invalid">> ELSE <<>>]
    ELSE [value |-> TRUE, warn_stale |-> FALSE, warn_readings |-> FALSE,
          log |-> <<>>]

\* PurpleAirAqiSensor.available (v1), for a station last seen `elapsed`
\* seconds ago; a falsy pm2_5_aqi_epa makes it unavailable.
v1_available(has_data, aqi_epa, elapsed, stale) ==
    IF ~has_data \/ ~Truthy(aqi_epa)
    THEN [value |-> FALSE, warn_stale |-> stale, log |-> <<>>]
    ELSE IF TimedeltaSeconds(elapsed) > 5400
    THEN [value |-> FALSE, warn_stale |-> TRUE,
          log |-> IF ~stale THEN <<"stale">> ELSE <<>>]
    ELSE [value |-> TRUE, warn_stale |-> FALSE, log |-> <<>>]

----------------------------------------------------------------------------
(* purple_air_api/v1/util.py: get_api_sensor_config                        *)
(*                                                                         *)
(* A response is [status, body]; the body is a JSON object, a record whose *)
(* fields are Absent for the keys it does not have ("sensor": <<>>, or the *)
(* object in a sequence of one; "private": None).  An outcome is what the  *)
(* call returns, <<>> for None and else the value in a sequence of one, or *)
(* the exception it raises.                                                *)

\* aiohttp's ClientResponse.ok
Ok(status) == status < 400

Returns(value) ==
    [raised |-> "", param |-> "", extra |-> "", value |-> value]

Raises(exception, param, extra) ==
    [raised |-> exception, param |-> param, extra |-> extra, value |-> <<>>]

\* _get_sensor_data_from_api: a non-ok status other than 404 and 400
\* falls through to the return; data.get("sensor") is None for a body
\* without that key.
get_sensor_data_from_api(resp) ==
    IF resp.status >= 500
    THEN Raises("PurpleAirApiConfigError", "server_error", "reason")
    ELSE IF ~Ok(resp.status) /\ resp.status = 404
    THEN Raises("PurpleAirApiConfigError", "pa_sensor_id", "not_found")
    ELSE IF ~Ok(resp.status) /\ resp.status = 400
    THEN IF resp.body.error = "InvalidDataReadKeyError"
         THEN Raises("PurpleAirApiConfigError", "pa_sensor_id", "bad_read_key")
         ELSE Raises("PurpleAirApiConfigError", "bad_request", "description")
    ELSE Returns(resp.body.sensor)

\* get_api_sensor_config: the parameters, the keys request, then the
\* sensor request.  sensor_data.get on the None that
\* _get_sensor_data_from_api returned raises AttributeError.
get_api_sensor_config(api_key_is_str, pa_sensor_id_is_str, keys, sensor) ==
    IF ~api_key_is_str THEN Raises("PurpleAirApiConfigError", "api_key", "missing")
    ELSE IF ~pa_sensor_id_is_str
    THEN Raises("PurpleAirApiConfigError", "pa_sensor_id", "missing")
    ELSE IF keys.status >= 500
    THEN Raises("PurpleAirApiConfigError", "server_error", "reason")
    ELSE IF ~Ok(keys.status)
    THEN Raises("PurpleAirApiConfigError", "api_key",
                IF keys.status = 403 THEN "forbidden" ELSE "bad_status")
    ELSE IF keys.body.api_key_type # "READ"
    THEN Raises("PurpleAirApiConfigError", "api_key", "not_read_key")
    ELSE IF get_sensor_data_from_api(sensor).raised # ""
    THEN get_sensor_data_from_api(sensor)
    ELSE IF get_sensor_data_from_api(sensor).value = <<>>
    THEN Raises("AttributeError", "", "")
    ELSE LET config_data == get_sensor_data_from_api(sensor).value[1]
             hidden == (IF config_data.private = None THEN 0
                        ELSE config_data.private) = 1
         IN  Returns(<<[pa_sensor_id |-> config_data.sensor_index,
                        name |-> config_data.name,
                        hidden |-> hidden,
                        read_key |-> IF hidden THEN config_data.primary_key_a
                                     ELSE "None"]>>)

----------------------------------------------------------------------------
(* purple_air_api/v1/api.py: one poll of the v1 API                        *)
(*                                                                         *)
(* A response is [status, fields, data]: the HTTP status, the set of       *)
(* columns it has and its rows.  A row maps a column to its JSON value,    *)
(* None for null; the position of a column in the row is not modelled.     *)

\* The API_SENSOR_FIELDS that are followed here.  The other fields are
\* converted by the same rules and are read by nothing below.
API_SENSOR_FIELDS ==
    {"sensor_index", "last_seen", "humidity", "temperature", "pm2.5_atm",
     "pm2.5_cf_1"}

API_INT_VALUES == {"humidity", "temperature"}

API_FLOAT_VALUES == {"pm2.5_atm", "pm2.5_cf_1"}

API_TIMESTAMP_VALUES == {"last_seen"}

\* int(value) of a number in hundredths: the fraction is cut off.
IntOf(v) == IF v >= 0 THEN (v \div 100) * 100 ELSE 0 - (((0 - v) \div 100) * 100)

\* str(sensor_index)
StrOf(n) == IF n = 100 THEN "100" ELSE "200"

\* name.replace(".", "_") of SensorReading.set_value
Normalized(field) ==
    CASE field = "pm2.5_atm" -> "pm2_5_atm"
      [] field = "pm2.5_cf_1" -> "pm2_5_cf_1"
      [] OTHER -> field

\* The conversion of a raw value in _read_sensor_data.
Converted(field, raw) ==
    IF field \in API_INT_VALUES THEN (IF Truthy(raw) THEN IntOf(raw) ELSE None)
    ELSE IF field \in API_FLOAT_VALUES THEN (IF Truthy(raw) THEN raw ELSE 0)
    ELSE IF Truthy(raw) THEN raw ELSE None

\* _update_fields_position: the requested fields the response has; the
\* warning is logged once, until a response has every field again.
update_fields_position(fields, api_fields, warned) ==
    LET missing_fields == fields \ api_fields
    IN  [fields |-> fields \cap api_fields,
         warned |-> missing_fields # {},
         log |-> IF missing_fields # {} /\ ~warned
                 THEN <<[missing |-> missing_fields]>> ELSE <<>>]

\* _read_sensor_data, one row: a SensorReading with every field the
\* response has, converted; a field it has not keeps its default.
ReadRow(fields, raw_sensor) ==
    LET base == NewSensorReading(StrOf(raw_sensor["sensor_index"]))
    IN  [a \in DOMAIN base |->
            IF \E f \in fields \ {"sensor_index"} : Normalized(f) = a
            THEN LET f == CHOOSE f \in fields \ {"sensor_index"} : Normalized(f) = a
                 IN  Converted(f, raw_sensor[f])
            ELSE base[a]]

\* _read_sensor_data: the rows in order, a later row of a station
\* replacing an earlier one.
RECURSIVE ReadFrom(_, _, _, _)
ReadFrom(fields, rows, i, processed) ==
    IF i > Len(rows) THEN processed
    ELSE LET r == ReadRow(fields, rows[i])
         IN  ReadFrom(fields, rows, i + 1,
                      [x \in DOMAIN processed \cup {r.pa_sensor_id} |->
                          IF x = r.pa_sensor_id THEN r ELSE processed[x]])

read_sensor_data(fields, data) == ReadFrom(fields, data, 1, <<>>)

(* __init__.py: async_migrate_entry                                        *)
(*                                                                         *)
(* A config entry is [version, data]; data maps every key of DataKeys to   *)
(* <<>> when the dictionary does not have it and else to its value in a    *)
(* sequence of one.                                                        *)

\* The keys a config entry's data may have.
DataKeys ==
    {"id", "node_id", "pa_sensor_id", "api_key", "api_version", "title",
     "hidden", "key"}

\* The steps to version 2 and 3 that leave the old key in the data.
Rename_keeps(entry, old, new, version) ==
    IF entry.data[old] = <<>>
    THEN [entry |-> entry, raised |-> "KeyError"]
    ELSE [entry |-> [version |-> version,
                     data |-> [entry.data EXCEPT ![new] = entry.data[old]]],
          raised |-> ""]

\* data[new] = data[old]; del data[old]; config_entry.version = version.
\* The data is replaced when both statements are done, so a KeyError
\* leaves the entry as it was.
Rename(entry, old, new, version) ==
    IF entry.data[old] = <<>>
    THEN [entry |-> entry, raised |-> "KeyError"]
    ELSE [entry |-> [version |-> version,
                     data |-> [entry.data EXCEPT ![new] = entry.data[old],
                                                 ![old] = <<>>]],
          raised |-> ""]

\* Version 4: data["api_key"] = ""; data["api_version"] = 0.
AddApiVersion(entry) ==
    [version |-> 4,
     data |-> [entry.data EXCEPT !["api_key"] = <<"">>,
                                 !["api_version"] = <<0>>]]

\* async_migrate_entry(hass, config_entry): the entry it leaves and the
\* exception it raises.
async_migrate_entry(entry) ==
    LET v2 == IF entry.version = 1
              THEN Rename(entry, "id", "node_id", 2)
              ELSE [entry |-> entry, raised |-> ""]
        v3 == IF v2.raised = "" /\ v2.entry.version = 2
              THEN Rename(v2.entry, "node_id", "pa_sensor_id", 3)
              ELSE v2
    IN  IF v3.raised = "" /\ v3.entry.version = 3
        THEN [entry |-> AddApiVersion(v3.entry), raised |-> ""]
        ELSE v3

----------------------------------------------------------------------------
(* purple_air_api/__init__.py and __init__.py: the legacy registry and the *)
(* setup of a legacy entry                                                 *)
(*                                                                         *)
(* A registry is the dictionary `sensors` of an API instance: a function   *)
(* from the ids registered to their entries.  A key of None is "".         *)

\* The sensor ids of the config entries.
SensorIds == Stations \cup {"300"}

\* PurpleAirApi.register_sensor that replaces the entry of an id it has.
legacy_register_sensor_last(registry, pa_sensor_id, title, hidden, key) ==
    [x \in DOMAIN registry \cup {pa_sensor_id} |->
        IF x = pa_sensor_id
        THEN [pa_sensor_id |-> pa_sensor_id, title |-> title,
              hidden |-> hidden, key |-> key]
        ELSE registry[x]]

\* PurpleAirApi.register_sensor: nothing for an id that is registered.
legacy_register_sensor(registry, pa_sensor_id, title, hidden, key) ==
    IF pa_sensor_id \in DOMAIN registry THEN registry
    ELSE [x \in DOMAIN registry \cup {pa_sensor_id} |->
            IF x = pa_sensor_id
            THEN [pa_sensor_id |-> pa_sensor_id, title |-> title,
                  hidden |-> hidden, key |-> key]
            ELSE registry[x]]

\* PurpleAirApi.unregister_sensor: nothing for an id that is not
\* registered.
legacy_unregister_sensor(registry, pa_sensor_id) ==
    IF pa_sensor_id \notin DOMAIN registry THEN registry
    ELSE [x \in DOMAIN registry \ {pa_sensor_id} |-> registry[x]]

\* PurpleAirApi.get_sensor_count.
legacy_get_sensor_count(registry) == Cardinality(DOMAIN registry)

\* The test of _async_register_legacy_sensor that asks for the first
\* refresh only when no startup is expected.
first_refresh_due_after_startup(expected, count, has_data) ==
    expected = 0 /\ ~has_data

\* The test of _async_register_legacy_sensor before the first refresh:
\* no startup entries are expected, or all of them are registered, and the
\* coordinator has no data for the sensor.
first_refresh_due(expected, count, has_data) ==
    (expected = 0 \/ count = expected) /\ ~has_data

----------------------------------------------------------------------------
(* purple_air_api/v1/api.py: the registry of the v1 API                    *)

\* PurpleAirApiV1.register_sensor: nothing for an id that is registered.
register_sensor(registry, pa_sensor_id, name, hidden, read_key) ==
    IF pa_sensor_id \in DOMAIN registry THEN registry
    ELSE [x \in DOMAIN registry \cup {pa_sensor_id} |->
            IF x = pa_sensor_id
            THEN [pa_sensor_id |-> pa_sensor_id, name |-> name,
                  hidden |-> hidden, read_key |-> read_key]
            ELSE registry[x]]

\* PurpleAirApiV1.unregister_sensor: nothing for an id that is not
\* registered.
unregister_sensor(registry, pa_sensor_id) ==
    IF pa_sensor_id \notin DOMAIN registry THEN registry
    ELSE [x \in DOMAIN registry \ {pa_sensor_id} |-> registry[x]]

\* PurpleAirApiV1.get_sensor_count.
get_sensor_count(registry) == Cardinality(DOMAIN registry)

----------------------------------------------------------------------------
(* purple_air_api/__init__.py: the URLs of a legacy update                 *)
(*                                                                         *)
(* A URL is [key, sensors]: the key of PRIVATE_URL, "" for PUBLIC_URL, and *)
(* the ids joined in its `show` parameter, in their order.  by_keys is the *)
(* sequence of its items, in the order the keys were first met.            *)

RECURSIVE ByKeysFrom(_, _, _, _)
\* The loop over private_sensors that fills by_keys, from the i-th on.
ByKeysFrom(registry, private_sensors, i, by_keys) ==
    IF i > Len(private_sensors) THEN by_keys
    ELSE LET id == private_sensors[i]
             key == registry[id].key
         IN  IF key = ""
             THEN ByKeysFrom(registry, private_sensors, i + 1, by_keys)
             ELSE IF \E j \in DOMAIN by_keys : by_keys[j].key = key
             THEN ByKeysFrom(registry, private_sensors, i + 1,
                      [j \in DOMAIN by_keys |->
                          IF by_keys[j].key = key
                          THEN [by_keys[j] EXCEPT !.sensors = @ \o <<id>>]
                          ELSE by_keys[j]])
             ELSE ByKeysFrom(registry, private_sensors, i + 1,
                      Append(by_keys, [key |-> key, sensors |-> <<id>>]))

\* PurpleAirApi._build_api_urls(public_sensors, private_sensors): with
\* private sensors a URL for each key, the first with the public sensors
\* too; without, one URL for the public sensors if there are any.
build_api_urls(registry, public_sensors, private_sensors) ==
    IF private_sensors # <<>>
    THEN LET by_keys == ByKeysFrom(registry, private_sensors, 1, <<>>)
         IN  [j \in DOMAIN by_keys |->
                 [key |-> by_keys[j].key,
                  sensors |-> IF j = 1
                              THEN by_keys[j].sensors \o public_sensors
                              ELSE by_keys[j].sensors]]
    ELSE IF public_sensors # <<>>
    THEN <<[key |-> "", sensors |-> public_sensors]>>
    ELSE <<>>

----------------------------------------------------------------------------
(* config_flow.py: the steps that add a sensor                             *)
(*                                                                         *)
(* The user input is a dict with the entries [api_key, id], each <<>> for *)
(* a value of None and else the string in a sequence of one.  `errors` is the set of its   *)
(* items <<key, message>>, a message "a_b" being <<"a", "b">>.  A flow     *)
(* result is [type, step_id, errors].                                      *)

\* The errors of a PurpleAirApiConfigError, without one for a server
\* error.
config_errors_no_server(param, extra) ==
    IF param = "api_key" THEN {<<"api_key", <<"api_key", extra>>>>}
    ELSE IF param = "pa_sensor_id" THEN {<<"id", <<"id", extra>>>>}
    ELSE IF param = "bad_request" THEN {<<"base", <<"bad_request", "">>>>}
    ELSE {}

\* The errors _get_sensor_config sets for a PurpleAirApiConfigError; none
\* for a param it does not know.
config_errors(param, extra) ==
    IF param = "api_key" THEN {<<"api_key", <<"api_key", extra>>>>}
    ELSE IF param = "pa_sensor_id" THEN {<<"id", <<"id", extra>>>>}
    ELSE IF param = "bad_request" THEN {<<"base", <<"bad_request", "">>>>}
    ELSE IF param = "server_error" THEN {<<"base", <<"bad_status", "">>>>}
    ELSE {}

\* PurpleAirConfigFlow._get_sensor_config(user_input), the server
\* answering `keys` and `sensor`: config_validation.string raises
\* vol.Invalid for None; every other exception is an unknown error.
get_sensor_config(user_input, keys, sensor) ==
    IF user_input.api_key = <<>>
    THEN [config |-> <<>>, errors |-> {<<"api_key", <<"api_key", "missing">>>>}]
    ELSE IF user_input.id = <<>>
    THEN [config |-> <<>>, errors |-> {<<"id", <<"id", "missing">>>>}]
    ELSE LET out == get_api_sensor_config(TRUE, TRUE, keys, sensor)
         IN  IF out.raised = ""
             THEN [config |-> <<[pa_sensor_id |-> out.value[1].pa_sensor_id,
                                 title |-> out.value[1].name,
                                 key |-> out.value[1].read_key,
                                 hidden |-> out.value[1].hidden,
                                 api_key |-> user_input.api_key[1],
                                 api_version |-> 1]>>,
                   errors |-> {}]
             ELSE IF out.raised = "PurpleAirApiConfigError"
             THEN [config |-> <<>>,
                   errors |-> config_errors(out.param, out.extra)]
             ELSE [config |-> <<>>, errors |-> {<<"base", <<"unknown", "">>>>}]

\* What a step does with the user input it has: the entry is created for
\* a config without errors, unless its unique id is configured, and else
\* the form of the step is shown with the errors.
StepWithInput(step_id, user_input, keys, sensor, configured) ==
    LET got == get_sensor_config(user_input, keys, sensor)
    IN  [called |-> TRUE, config |-> got.config, errors |-> got.errors,
         result |->
            IF got.config # <<>> /\ got.errors = {}
            THEN IF configured
                 THEN [type |-> "abort", step_id |-> "already_configured",
                       errors |-> {}]
                 ELSE [type |-> "create_entry", step_id |-> step_id,
                       errors |-> {}]
            ELSE [type |-> "form", step_id |-> step_id, errors |-> got.errors]]

\* A step without user input shows its form without errors.
StepWithoutInput(step_id) ==
    [called |-> FALSE, config |-> <<>>, errors |-> {},
     result |-> [type |-> "form", step_id |-> step_id, errors |-> {}]]

\* async_step_add_sensor(user_input), with self._api_key = api_key.
async_step_add_sensor(api_key, user_input, keys, sensor, configured) ==
    IF user_input # <<>>
    THEN StepWithInput("add_sensor",
                       [user_input[1] EXCEPT !.api_key = <<api_key>>],
                       keys, sensor, configured)
    ELSE StepWithoutInput("add_sensor")

\* async_step_user(user_input): with an API key among the entries
\* (`api_key`, "" for none) the add_sensor step is entered without input.
async_step_user(api_key, user_input, keys, sensor, configured) ==
    IF api_key # ""
    THEN async_step_add_sensor(api_key, <<>>, keys, sensor, configured)
    ELSE IF user_input # <<>>
    THEN StepWithInput("user", user_input[1], keys, sensor, configured)
    ELSE StepWithoutInput("user")

----------------------------------------------------------------------------
----------------------------------------------------------------------------
(* Bounds                                                                  *)

\* The warning counters stop counting here ("this many or more").
MaxLogged == 2

\* The readings the direct calls of get_pm_reading draw from: a pair exactly
\* 45.00 apart (10.00, 55.00), one just closer (10.00, 54.99), a value
\* that rounds (30.12), and the ceiling, just below it and above it.
\* No value and no average of two of them is a decimal tie, where the
\* binary double decides Python's round.
PmValues ==
    {1000, 3012, 5499, 5500, MAX_PM_READING - 1, MAX_PM_READING,
     MAX_PM_READING + 100}

MergeCallProps == {API_ATTR_PM25, API_ATTR_PM10, API_ATTR_HUMIDITY}

\* The most raw records in one fetched batch.
MaxRecords == 2

Vals(pm1, pm25, pm10, hum, temp, pressure) ==
    (API_ATTR_PM1 :> pm1) @@ (API_ATTR_PM25 :> pm25) @@ (API_ATTR_PM10 :> pm10)
    @@ (API_ATTR_HUMIDITY :> hum) @@ (API_ATTR_TEMP_F :> temp)
    @@ (API_ATTR_PRESSURE :> pressure)

Raw(slot, id, parent, label, seen, vals) ==
    [slot |-> slot, ID |-> id, ParentID |-> parent, Label |-> label,
     LastSeen |-> seen, vals |-> vals]

\* The raw records a batch is drawn from.  `slot` names the station and
\* channel the record is for (it is no key of the record): a batch holds at
\* most one record of a slot.
\*   A100: the channel-A record of station 100, with every metric; or with
\*         readings of 0 (pm1_0_atm, humidity), a temperature that rounds
\*         to 0.0, a pm10_0_atm at the ceiling and no pressure.
\*   B100: its channel-B record, agreeing with A; or with pm1_0_atm and
\*         pm10_0_atm at or above the ceiling; or with no data.
\*   A200, B200: station 200, whose channel B reads the ceiling.
\*   bad:  a record with neither ID nor ParentID.
RawRecords ==
    {Raw("A100", "100", Absent, "A100", 1,
         Vals(1000, 3000, 4000, 4500, 7000, 101325)),
     Raw("A100", "100", Absent, "A100", 1,
         Vals(0, 3000, MAX_PM_READING, 0, 4, None)),
     Raw("B100", "101", "100", "B100", 2,
         Vals(1100, 3200, 4100, None, None, None)),
     Raw("B100", "101", "100", "B100", 2,
         Vals(MAX_PM_READING + 100, 3200, MAX_PM_READING, None, None, None)),
     Raw("B100", "101", "100", "B100", 2,
         Vals(None, None, None, None, None, None)),
     Raw("A200", "200", Absent, "A200", 3,
         Vals(None, 1204, 612, 5000, None, 101325)),
     Raw("B200", "201", "200", "B200", 4,
         Vals(None, MAX_PM_READING, 608, None, None, None)),
     Raw("bad", Absent, Absent, "bad", 5,
         Vals(500, 500, 500, None, None, None))}

\* The batches: up to MaxRecords records, in any order, one per slot.
Batches ==
    {b \in UNION {[1..n -> RawRecords] : n \in 0..MaxRecords} :
        \A i, j \in DOMAIN b : i # j => b[i].slot # b[j].slot}

\* The seconds between two operations on the v1 cache.
Dts == {1800, 3900}

\* const.SCAN_INTERVAL, in seconds
SCAN_INTERVAL == 300

\* The counter of the polls a scan interval apart stops counting here
\* ("this many or more").
MaxPolls == 13

\* The readings the direct calls of the corrections draw from.
TempValues == {None, 0 - 500, 0, 4, 800, 3200, 7000, 10000}

HumValues == {None, 0 - 400, 0, 100, 4500, 5000, 9600, 10000}

\* The dictionaries the direct calls of the v1 add_aqi_calculations draw
\* from: station 100 with both metrics, positive or 0, with one of them
\* or none, or without pm2_5_atm, and station 200, when it is there, with
\* one reading.
AqiReading(id, hum, atm, cf1) ==
    [NewSensorReading(id) EXCEPT
        !.humidity = hum, !.pm2_5_atm = atm, !.pm2_5_cf_1 = cf1]

AqiInputs ==
    LET S100 == {AqiReading("100", 5400, 1210, 2001),
                 AqiReading("100", 0, 1210, 0),
                 AqiReading("100", None, 1210, 2001),
                 AqiReading("100", 0, 1210, None),
                 AqiReading("100", None, 1210, None),
                 AqiReading("100", 5400, None, 2001)}
        S200 == {AqiReading("200", 4400, 500, 0)}
    IN  {("100" :> x) : x \in S100}
        \cup {("200" :> y) : y \in S200}
        \cup {("100" :> x) @@ ("200" :> y) : x \in S100, y \in S200}

\* The dictionaries the direct calls of the legacy add_aqi_calculations draw
\* from: station 100 with a humidity of 54 and a pm2_5_cf_1 of 20.01, of
\* 100 and 0, of 50 and 400.00, or without humidity; after it, or alone,
\* station 200 with one reading.
LegacyReading(id, hum, atm, cf1) ==
    LET blank == NewSensorData(id, [Label |-> id, LastSeen |-> 1])
    IN  [blank EXCEPT !.value[API_ATTR_HUMIDITY] = hum,
                      !.value[API_ATTR_PM25] = atm,
                      !.value["pm2_5_cf_1"] = cf1,
                      !.confidence[API_ATTR_PM25] = "good"]

LegacyAqiInputs ==
    LET S100 == {LegacyReading("100", 5400, 1210, 2001),
                 LegacyReading("100", 10000, 1210, 0),
                 LegacyReading("100", 5000, 1210, 40000),
                 LegacyReading("100", None, 1210, 2001)}
        S200 == {LegacyReading("200", 4400, 500, 2001)}
    IN  {<<x>> : x \in S100 \cup S200} \cup {<<x, y>> : x \in S100, y \in S200}

\* The values of the direct calls of calc_aqi: every tenth from -0.2 to
\* CalcMax, one after the other, and the values between two bands.
CalcMax == 100010

CalcGaps == {1205, 3545, 5545, 15045, 25045, 35045, 50045}

CalcIndexes == {"pm2_5", "pm10_0", "unknown_kind"}

\* The seconds since the station's last update at a reading of
\* `available`: fresh, 90 minutes, just over, a second less than a day, a
\* day, a day and ten minutes, a day and just over 90 minutes.
ElapsedValues == {0, 5400, 5401, 86399, 86400, 87000, 91801}

\* The responses to the keys request and to the sensor request of
\* get_api_sensor_config.
KeysResponses ==
    {[status |-> st, body |-> [api_key_type |-> t]] :
        st \in {200, 403, 404, 500}, t \in {"READ", "WRITE", Absent}}

SensorBodies ==
    {[error |-> e, sensor |-> <<>>] :
        e \in {"InvalidDataReadKeyError", "NotFoundError", Absent}}
    \cup {[error |-> Absent,
           sensor |-> <<[sensor_index |-> "100", name |-> "Station",
                         private |-> pr, primary_key_a |-> "KEY"]>>] :
            pr \in {0, 1, None}}

SensorResponses ==
    {[status |-> st, body |-> b] :
        st \in {200, 400, 401, 403, 404, 429, 500}, b \in SensorBodies}

\* The rows a v1 response is drawn from.
Row(id, seen, hum, temp, atm, cf1) ==
    ("sensor_index" :> id) @@ ("last_seen" :> seen) @@ ("humidity" :> hum)
    @@ ("temperature" :> temp) @@ ("pm2.5_atm" :> atm) @@ ("pm2.5_cf_1" :> cf1)

\*   station 100: every metric; humidity and temperature 0; pm2.5_cf_1
\*   null; humidity null.  station 200: every metric, pm2.5_cf_1 0.
Rows100 ==
    {Row(100, 1, 5000, 7000, 1210, 2000),
     Row(100, 1, 0, 0, 1210, 2000),
     Row(100, 1, 5000, None, 3100, None),
     Row(100, 1, None, 7050, None, 2000)}

Rows200 == {Row(200, 2, 4000, 6000, 500, 0)}

RowBatches ==
    {<<>>} \cup {<<r>> : r \in Rows100 \cup Rows200}
    \cup {<<r, q>> : r \in Rows100, q \in Rows200}

\* The responses of the polls a scan interval apart: station 100 with a
\* humidity of 50 and a pm2.5_cf_1 of 20.00, or of 46 and 400.00; station
\* 200, when it is there, without humidity.
SteadyResponses ==
    {[status |-> 200, fields |-> API_SENSOR_FIELDS, data |-> <<r>> \o d] :
        r \in {Row(100, 1, 5000, 7000, 1210, 2000),
                Row(100, 1, 4600, 7000, 1210, 40000)},
        d \in {<<>>, <<Row(200, 2, None, 6000, 500, 2000)>>}}

\* The responses to a request with show_only = the registered stations: a
\* server error, a client error, or a row for each of them, station 100 with a humidity of
\* 50, station 200 with one of 40 or without humidity.
CoordinatorResponses(registered) ==
    {[status |-> 500, fields |-> {}, data |-> <<>>],
     [status |-> 429, fields |-> {}, data |-> <<>>]}
    \cup {[status |-> 200, fields |-> API_SENSOR_FIELDS,
           data |-> (IF "100" \in registered
                     THEN <<Row(100, 1, 5000, 7000, 1210, 2000)>> ELSE <<>>)
                    \o (IF "200" \in registered THEN <<r>> ELSE <<>>)] :
            r \in {Row(200, 2, 4000, 6000, 500, 2000),
                    Row(200, 2, None, 6000, 500, 2000)}}

\* The responses to a request with show_only = `registered` that was
\* suspended: a server error, no row, or a row without humidity for each
\* of the stations.
RefreshResponses(registered) ==
    {[status |-> 500, fields |-> {}, data |-> <<>>],
     [status |-> 200, fields |-> API_SENSOR_FIELDS, data |-> <<>>],
     [status |-> 200, fields |-> API_SENSOR_FIELDS,
      data |-> (IF "100" \in registered
                THEN <<Row(100, 1, None, 7000, 1210, 2000)>> ELSE <<>>)
               \o (IF "200" \in registered
                   THEN <<Row(200, 2, None, 6000, 500, 2000)>> ELSE <<>>)]}

\* The responses: a server error, a client error, and the successful ones
\* with every requested column or without pm2.5_cf_1.
Responses ==
    {[status |-> 500, fields |-> {}, data |-> <<>>],
     [status |-> 404, fields |-> {}, data |-> <<>>]}
    \cup {[status |-> 200, fields |-> f, data |-> d] :
            f \in {API_SENSOR_FIELDS, API_SENSOR_FIELDS \ {"pm2.5_cf_1"}},
            d \in RowBatches}

\* The key that holds the sensor id in the data of each version.
IdKey(version) ==
    IF version = 1 THEN "id"
    ELSE IF version = 2 THEN "node_id" ELSE "pa_sensor_id"

\* The data of an entry of a version: the sensor id under the key of the
\* version, a title, the hidden flag and its key, and from version 4 on an
\* API version with its key.
EntryData(version, id, title, hidden, key, flag) ==
    [k \in DataKeys |->
        IF k = IdKey(version) THEN <<id>>
        ELSE IF k = "title" THEN <<title>>
        ELSE IF k = "hidden" THEN <<hidden>>
        ELSE IF k = "key" THEN key
        ELSE IF k = "api_version" /\ version = 4 THEN <<flag.version>>
        ELSE IF k = "api_key" /\ version = 4 THEN <<flag.key>>
        ELSE <<>>]

\* The config entries to migrate: of every version, as the flow of that
\* version stored them.
ConfigEntries ==
    {[version |-> v, data |-> EntryData(v, id, title, hidden, key, a)] :
        v \in 1..4, id \in Stations, title \in {"Porch", "Yard", ""},
        hidden \in BOOLEAN, key \in {<<>>, <<"K1">>},
        a \in {[version |-> 0, key |-> ""], [version |-> 1, key |-> "APIKEY"]}}

\* The first refreshes are counted up to here ("this many or more").
MaxRefreshes == 3

\* The configurations a sensor is registered with: public under one of
\* two titles, or hidden without a key or with one of two keys.
SensorConfigs ==
    {[pa_sensor_id |-> s, title |-> t, hidden |-> FALSE, key |-> ""] :
        s \in SensorIds, t \in {"Porch", "Yard"}}
    \cup {[pa_sensor_id |-> s, title |-> "Porch", hidden |-> TRUE, key |-> k] :
            s \in SensorIds, k \in {"", "K1", "K2"}}

\* The configurations of the legacy config entries, one for each sensor:
\* a public one, a hidden one with a key and a hidden one without.
EntryConfigs ==
    {[pa_sensor_id |-> "100", title |-> "Porch", hidden |-> FALSE, key |-> ""],
     [pa_sensor_id |-> "200", title |-> "Yard", hidden |-> TRUE, key |-> "K1"],
     [pa_sensor_id |-> "300", title |-> "Shed", hidden |-> TRUE, key |-> ""]}

\* The configurations a v1 sensor is registered with: public under one of
\* two names, or hidden with a read key.
V1Configs ==
    {[pa_sensor_id |-> s, name |-> n, hidden |-> FALSE, read_key |-> ""] :
        s \in Stations, n \in {"Porch", "Yard"}}
    \cup {[pa_sensor_id |-> s, name |-> "Porch", hidden |-> TRUE,
           read_key |-> "R1"] : s \in Stations}

\* The orders in which the ids of a set can have been registered.
Orders(ids) ==
    {q \in [1..Cardinality(ids) -> ids] :
        \A i, j \in 1..Cardinality(ids) : i # j => q[i] # q[j]}

\* The user inputs of a step: none, or an API key and a sensor id, each
\* given or not.
UserInputs ==
    {<<>>}
    \cup {<<[api_key |-> k, id |-> i]>> :
            k \in {<<>>, <<"APIKEY">>}, i \in {<<>>, <<"100">>}}

\* The answers of the server to the two requests of a step: a READ key, a
\* forbidden key or a server error, then any answer for the sensor.
FlowKeysResponses ==
    {r \in KeysResponses :
        r.body.api_key_type = "READ" /\ r.status \in {200, 403, 500}}

FlowSensorResponses ==
    {r \in SensorResponses :
        \/ r.status = 200 /\ r.body.error = Absent
        \/ r.status \in {400, 404} /\ r.body.sensor = <<>>
                                   /\ r.body.error # Absent
        \/ r.status \in {401, 500} /\ r.body.error = "NotFoundError"}

----------------------------------------------------------------------------
(* State machine                                                           *)

Init ==
    /\ WARNED_SENSORS = <<>>
    /\ warnings = <<>>
    /\ call = [fn |-> "init"]
    /\ ret = [value |-> None, confidence |-> ""]
    /\ results = <<>>
    /\ sensors = <<>>
    /\ raised = ""
    /\ streak = [s \in Stations |-> 0]
    /\ logged = [s \in Stations |-> 0]
    /\ cache = [s \in Stations |-> <<>>]
    /\ sensor_data = <<>>
    /\ warn_missing_fields = FALSE
    /\ info = [s \in Stations |-> 0]
    /\ steady = 0
    /\ api = FALSE
    /\ api_sensors = {}
    /\ own_cache = [i \in Instances |-> [s \in Stations |-> <<>>]]
    /\ global_cache = [s \in Stations |-> <<>>]
    /\ warn_stale = [e \in Entities |-> FALSE]
    /\ warn_readings = [e \in Entities |-> FALSE]
    /\ stale_warned = [e \in Entities |-> FALSE]
    /\ last_device_refresh = None
    /\ request = <<>>
    /\ awaiting = {}
    /\ quiet_days = None
    /\ config_entry = <<>>
    /\ expected_entries = None
    /\ legacy_api = FALSE
    /\ legacy_sensors = <<>>
    /\ coordinator_data = {}
    /\ refreshes = 0
    /\ v1_sensors = <<>>

\* The counters after an operation that wrote `log`.
Count(c, log) == [s \in Stations |-> Min(c[s] + WarningsFor(log, s), MaxLogged)]

\* A direct call get_pm_reading(pa_sensor, prop, a_value, b_value).
CallGetPmReading ==
    \E s \in Stations, prop \in MergeCallProps, a \in PmValues, b \in PmValues :
        LET r == get_pm_reading(WARNED_SENSORS, <<>>, s, prop, a, b)
        IN  /\ call' = [fn |-> "get_pm_reading", sensor |-> s, prop |-> prop,
                        a |-> a, b |-> b]
            /\ ret' = [value |-> r.value, confidence |-> r.confidence]
            /\ WARNED_SENSORS' = r.W
            /\ warnings' = r.log
            /\ logged' = Count(logged, r.log)
            /\ raised' = ""
            /\ UNCHANGED <<results, sensors, streak>>
            /\ UNCHANGED sidevars
            /\ UNCHANGED refreshvars
            /\ UNCHANGED setupvars
            /\ UNCHANGED v1vars

\* Whether the returned readings of the station have a particulate metric
\* with a faulty channel.
Degraded(dict, s) ==
    \E i \in DOMAIN dict :
        /\ dict[i].pa_sensor_id = s
        /\ \E p \in PM_PROPERTIES : dict[i].confidence[p] \in BadLabels

\* PurpleAirApi.update on a fetched batch: build_sensors,
\* calculate_sensor_values, add_aqi_calculations.  A KeyError of
\* build_sensors ends the update before anything else is done.
\* No reading built from JSON_PROPERTIES has pm2_5_cf_1, so
\* add_aqi_calculations leaves the caches as they are.
Update ==
    \E batch \in Batches :
        LET built == build_sensors(batch)
            calc == calculate_sensor_values(built.sensors, WARNED_SENSORS, <<>>)
            out == legacy_add_aqi_calculations(calc.sensors, own_cache[1],
                                               global_cache).sensors
        IN  /\ call' = [fn |-> "update"]
            /\ UNCHANGED v1vars
            /\ UNCHANGED sidevars
            /\ UNCHANGED refreshvars
            /\ UNCHANGED setupvars
            /\ results' = batch
            /\ raised' = built.raised
            /\ ret' = [value |-> None, confidence |-> ""]
            /\ IF built.raised # ""
               THEN /\ sensors' = <<>>
                    /\ warnings' = <<>>
                    /\ UNCHANGED <<WARNED_SENSORS, streak, logged>>
               ELSE /\ sensors' = out
                    /\ WARNED_SENSORS' = calc.W
                    /\ warnings' = calc.log
                    /\ logged' = Count(logged, calc.log)
                    /\ streak' =
                          [s \in Stations |->
                              IF Degraded(sensors', s)
                              THEN Count(streak, warnings')[s] ELSE 0]

\* A direct call apply_corrections(readings) of the legacy utility.
CallApplyCorrections ==
    \E t \in TempValues, h \in HumValues :
        LET blank == NewSensorData("100", [Label |-> "A100", LastSeen |-> 1])
            readings == [blank EXCEPT !.value[API_ATTR_TEMP_F] = t,
                                      !.value[API_ATTR_HUMIDITY] = h]
            out == apply_corrections(readings)
        IN  /\ call' = [fn |-> "apply_corrections", temperature |-> t,
                        humidity |-> h]
            /\ ret' = [temperature |-> out.value[API_ATTR_TEMP_F],
                       humidity |-> out.value[API_ATTR_HUMIDITY]]
            /\ warnings' = <<>>
            /\ raised' = ""
            /\ UNCHANGED legacyvars
            /\ UNCHANGED sidevars
            /\ UNCHANGED refreshvars
            /\ UNCHANGED setupvars
            /\ UNCHANGED v1vars

\* A direct call apply_sensor_corrections(sensors) of the v1 utility.
CallApplySensorCorrections ==
    \E t \in TempValues, h \in HumValues :
        LET data == ("100" :> [NewSensorReading("100") EXCEPT
                                  !.temperature = t, !.humidity = h])
            out == apply_sensor_corrections(data)
        IN  /\ call' = [fn |-> "apply_sensor_corrections", temperature |-> t,
                        humidity |-> h]
            /\ ret' = [temperature |-> out["100"].temperature,
                       humidity |-> out["100"].humidity]
            /\ sensor_data' = out
            /\ warnings' = <<>>
            /\ raised' = ""
            /\ UNCHANGED legacyvars
            /\ UNCHANGED sidevars
            /\ UNCHANGED refreshvars
            /\ UNCHANGED setupvars
            /\ UNCHANGED <<cache, warn_missing_fields, info>>

\* A direct call add_aqi_calculations(sensors, cache=cache) of the v1
\* utility, dt seconds after the last operation on the cache.
CallAddAqiCalculations ==
    \E dt \in Dts, data \in AqiInputs :
        LET r == add_aqi_calculations(data, Older(cache, dt))
        IN  /\ call' = [fn |-> "add_aqi_calculations", data |-> data]
            /\ sensor_data' = r.sensors
            /\ cache' = r.cache
            /\ info' = r.info
            /\ ret' = [value |-> None, confidence |-> ""]
            /\ warnings' = <<>>
            /\ raised' = ""
            /\ UNCHANGED legacyvars
            /\ UNCHANGED sidevars
            /\ UNCHANGED refreshvars
            /\ UNCHANGED setupvars
            /\ UNCHANGED warn_missing_fields

\* A variant that tests resp.ok first.
async_update_raises_ok_first(status) ==
    IF ~Ok(status) THEN "PurpleAirApiDataError" ELSE ""

\* The exception async_update raises for the status of the response, ""
\* for none: the server error before the body is read, the other after.
async_update_raises(status) ==
    IF status >= 500 THEN "PurpleAirServerApiError"
    ELSE IF ~Ok(status) THEN "PurpleAirApiDataError"
    ELSE ""

\* PurpleAirApiV1.async_update, dt seconds after the last operation on the
\* cache: a status of 500 or more raises before the body is read, another
\* status that is not ok raises after; else the columns are located, the
\* rows read and corrected and the AQI values added.  ret.json tells
\* whether resp.json() was awaited.
Poll(dt, resp) ==
    LET aged == Older(cache, dt)
        pos == update_fields_position(API_SENSOR_FIELDS, resp.fields,
                                      warn_missing_fields)
        read == read_sensor_data(pos.fields, resp.data)
        r == add_aqi_calculations(apply_sensor_corrections(read), aged)
    IN  /\ call' = [fn |-> "async_update", resp |-> resp]
        /\ ret' = [value |-> None, confidence |-> "", json |-> resp.status < 500]
        /\ UNCHANGED legacyvars
        /\ raised' = async_update_raises(resp.status)
        /\ IF resp.status >= 500
           THEN /\ cache' = aged
                /\ sensor_data' = <<>>
                /\ warnings' = <<>>
                /\ info' = [s \in Stations |-> 0]
                /\ UNCHANGED warn_missing_fields
           ELSE IF ~Ok(resp.status)
           THEN /\ cache' = aged
                /\ sensor_data' = <<>>
                /\ warnings' = <<>>
                /\ info' = [s \in Stations |-> 0]
                /\ UNCHANGED warn_missing_fields
           ELSE /\ cache' = r.cache
                /\ sensor_data' = r.sensors
                /\ info' = r.info
                /\ warnings' = pos.log
                /\ warn_missing_fields' = pos.warned

\* A direct call calc_aqi(value, index): on a value between two bands, or
\* on the tenth after the one of the last call.
CallCalcAqi ==
    \E index \in CalcIndexes :
        \E value \in CalcGaps \cup
                {IF call.fn = "calc_aqi" /\ call.value % 10 = 0
                       /\ call.value + 10 <= CalcMax
                 THEN call.value + 10 ELSE 0 - 20} :
            /\ call' = [fn |-> "calc_aqi", value |-> value, index |-> index]
            /\ ret' = [value |-> calc_aqi(value, index), confidence |-> ""]
            /\ warnings' = <<>>
            /\ raised' = ""
            /\ UNCHANGED legacyvars
            /\ UNCHANGED v1vars
            /\ UNCHANGED sidevars
            /\ UNCHANGED refreshvars
            /\ UNCHANGED setupvars

\* A reading of the `available` property of a sensor entity.
ReadAvailable ==
    \E e \in Entities, has_data \in BOOLEAN, elapsed \in ElapsedValues,
       confidence \in {"good", "invalid"}, aqi_epa \in {None, 0, 57} :
        LET out == IF e = "v1_aqi"
                   THEN v1_available(has_data, aqi_epa, elapsed, warn_stale[e])
                            @@ [warn_readings |-> warn_readings[e]]
                   ELSE legacy_available(e = "legacy_primary", has_data, elapsed,
                                         confidence, warn_stale[e],
                                         warn_readings[e])
        IN  /\ (e = "v1_aqi") => confidence = "good"
            /\ (e # "v1_aqi") => aqi_epa = None
            /\ call' = [fn |-> "available", entity |-> e, has_data |-> has_data,
                        elapsed |-> elapsed, confidence |-> confidence,
                        aqi_epa |-> aqi_epa]
            /\ ret' = [value |-> out.value, confidence |-> ""]
            /\ warnings' = out.log
            /\ raised' = ""
            /\ warn_stale' = [warn_stale EXCEPT ![e] = out.warn_stale]
            /\ warn_readings' = [warn_readings EXCEPT ![e] = out.warn_readings]
            /\ stale_warned' =
                  [stale_warned EXCEPT
                      ![e] = IF out.value THEN FALSE
                             ELSE IF "stale" \in Range(out.log) THEN TRUE
                             ELSE @]
            /\ UNCHANGED legacyvars
            /\ UNCHANGED v1vars
            /\ UNCHANGED <<steady, api, api_sensors, own_cache, global_cache>>
            /\ UNCHANGED refreshvars
            /\ UNCHANGED setupvars

\* A call of get_api_sensor_config with the responses the server gives to
\* its two requests.
CallGetApiSensorConfig ==
    \E api_key_is_str \in BOOLEAN, pa_sensor_id_is_str \in BOOLEAN,
       keys \in KeysResponses, sensor \in SensorResponses :
        LET out == get_api_sensor_config(api_key_is_str, pa_sensor_id_is_str,
                                         keys, sensor)
        IN  /\ call' = [fn |-> "get_api_sensor_config",
                        api_key_is_str |-> api_key_is_str,
                        pa_sensor_id_is_str |-> pa_sensor_id_is_str,
                        keys |-> keys, sensor |-> sensor]
            /\ ret' = [value |-> out.value, param |-> out.param,
                       extra |-> out.extra]
            /\ raised' = out.raised
            /\ warnings' = <<>>
            /\ UNCHANGED legacyvars
            /\ UNCHANGED v1vars
            /\ UNCHANGED sidevars
            /\ UNCHANGED refreshvars
            /\ UNCHANGED setupvars

\* PurpleAirDataUpdateCoordinator.do_device_update, `days` whole days
\* after _last_device_refresh (None when it is not set).
do_device_update(days) == days = None \/ days >= 1

\* _last_device_refresh after a poll made with do_device_update = `asked`
\* that returned the rows of `returned` (the keys of data, empty after an
\* exception): with include_device_data every row has a DeviceReading.
refreshed(days, asked, returned) ==
    IF returned # {} /\ asked THEN 0 ELSE days

\* The whole days since a time that was `days` ago (None for no time),
\* `lapse` days later; a day or more is kept as one day.
Aged(days, lapse) == IF days = None THEN None ELSE Min(days + lapse, 1)

\* A request is suspended at session.get.
InFlight == request # <<>> /\ request[1].in_flight

\* PurpleAirDataUpdateCoordinator.register_sensor: without an API instance
\* one is created, with sensors = {}, a cache new from
\* create_epa_value_cache and _warn_missing_fields = False; then the
\* instance registers the station, which changes nothing for a station it
\* has, and _last_device_refresh is cleared.
RegisterSensor ==
    \E s \in Stations :
        /\ call' = [fn |-> "register_sensor", pa_sensor_id |-> s]
        /\ api' = TRUE
        /\ IF api
           THEN /\ api_sensors' = api_sensors \cup {s}
                /\ UNCHANGED <<cache, warn_missing_fields>>
           ELSE /\ api_sensors' = {s}
                /\ cache' = [t \in Stations |-> <<>>]
                /\ warn_missing_fields' = FALSE
        /\ ret' = [value |-> None, confidence |-> ""]
        /\ warnings' = <<>>
        /\ raised' = ""
        /\ UNCHANGED legacyvars
        /\ last_device_refresh' = None
        /\ request' = IF InFlight
                       THEN <<[request[1] EXCEPT !.covers = FALSE]>>
                       ELSE request
        /\ awaiting' = awaiting \cup {s}
        /\ quiet_days' = None
        /\ UNCHANGED <<sensor_data, info>>
        /\ UNCHANGED <<steady, own_cache, global_cache>>
        /\ UNCHANGED entityvars
        /\ UNCHANGED setupvars

\* unregister_sensor that keeps the instance it has.
keeps_api_always(has_api, left) == has_api

\* Whether unregister_sensor keeps the API instance: the coordinator has
\* one and its get_sensor_count is not 0, `left` being the stations left.
keeps_api(has_api, left) == has_api /\ left # {}

\* PurpleAirDataUpdateCoordinator.get_sensor_count.
coordinator_get_sensor_count(has_api, registered) ==
    IF has_api THEN Cardinality(registered) ELSE 0

\* PurpleAirDataUpdateCoordinator.unregister_sensor: the instance, if
\* there is one, forgets the station; the coordinator lets go of an
\* instance that has no station left.
UnregisterSensor ==
    \E s \in Stations :
        /\ call' = [fn |-> "unregister_sensor", pa_sensor_id |-> s]
        /\ api_sensors' = IF api THEN api_sensors \ {s} ELSE api_sensors
        /\ api' = keeps_api(api, api_sensors \ {s})
        /\ ret' = [value |-> None, confidence |-> ""]
        /\ warnings' = <<>>
        /\ raised' = ""
        /\ awaiting' = awaiting \ {s}
        /\ UNCHANGED <<last_device_refresh, request, quiet_days>>
        /\ UNCHANGED legacyvars
        /\ UNCHANGED v1vars
        /\ UNCHANGED <<steady, own_cache, global_cache>>
        /\ UNCHANGED entityvars
        /\ UNCHANGED setupvars

\* _async_update_data without an API instance: {} and no request.
NoApiUpdate(dt, lapse) ==
    /\ call' = [fn |-> "_async_update_data"]
    /\ sensor_data' = <<>>
    /\ cache' = Older(cache, dt)
    /\ info' = [s \in Stations |-> 0]
    /\ ret' = [value |-> None, confidence |-> ""]
    /\ warnings' = <<>>
    /\ raised' = ""
    /\ last_device_refresh' = Aged(last_device_refresh, lapse)
    /\ quiet_days' = Aged(quiet_days, lapse)
    /\ UNCHANGED <<request, awaiting>>
    /\ UNCHANGED legacyvars
    /\ UNCHANGED warn_missing_fields
    /\ UNCHANGED sidevars
    /\ UNCHANGED setupvars

\* PurpleAirDataUpdateCoordinator._async_update_data, dt seconds after the
\* last poll and `lapse` days after the last reading of the clock: {}
\* without an API instance, else the instance's async_update on the rows
\* of its stations, and _last_device_refresh is set when device data came
\* back.  The poll runs to its end with nothing in between.
CoordinatorUpdate ==
    \E dt \in Dts, lapse \in {0, 1} :
        /\ ~InFlight
        /\ IF api
           THEN LET days == Aged(last_device_refresh, lapse)
                    asked == do_device_update(days)
                IN  /\ \E resp \in CoordinatorResponses(api_sensors) :
                            Poll(dt, resp)
                    /\ request' = <<[show_only |-> api_sensors,
                                     do_device_update |-> asked,
                                     in_flight |-> FALSE, covers |-> TRUE,
                                     quiet |-> Aged(quiet_days, lapse)]>>
                    /\ last_device_refresh' =
                           refreshed(days, asked, DOMAIN sensor_data')
                    /\ quiet_days' = refreshed(Aged(quiet_days, lapse), asked,
                                              DOMAIN sensor_data')
                    /\ awaiting' = awaiting \ api_sensors
                    /\ UNCHANGED sidevars
                    /\ UNCHANGED setupvars
           ELSE NoApiUpdate(dt, lapse)

\* _async_update_data up to the request of async_update, where it is
\* suspended: do_device_update is read and the stations of the request
\* are those registered now.  Without an API instance it returns {}.
BeginUpdate ==
    \E lapse \in {0, 1} :
        /\ ~InFlight
        /\ IF api
           THEN LET days == Aged(last_device_refresh, lapse)
                IN  /\ call' = [fn |-> "session.get"]
                    /\ request' = <<[show_only |-> api_sensors,
                                     do_device_update |-> do_device_update(days),
                                     in_flight |-> TRUE, covers |-> TRUE,
                                     quiet |-> Aged(quiet_days, lapse)]>>
                    /\ last_device_refresh' = days
                    /\ quiet_days' = Aged(quiet_days, lapse)
                    /\ awaiting' = awaiting \ api_sensors
                    /\ ret' = [value |-> None, confidence |-> ""]
                    /\ warnings' = <<>>
                    /\ raised' = ""
                    /\ UNCHANGED legacyvars
                    /\ UNCHANGED v1vars
                    /\ UNCHANGED sidevars
                    /\ UNCHANGED setupvars
           ELSE NoApiUpdate(HourSeconds, lapse)

\* The rest of _async_update_data, when the response of the suspended
\* request arrives: async_update reads it and _last_device_refresh is set
\* when device data came back.
EndUpdate ==
    \E dt \in Dts :
        /\ InFlight
        /\ \E resp \in RefreshResponses(request[1].show_only) : Poll(dt, resp)
        /\ request' = <<[request[1] EXCEPT !.in_flight = FALSE]>>
        /\ last_device_refresh' =
               refreshed(last_device_refresh, request[1].do_device_update,
                         DOMAIN sensor_data')
        /\ quiet_days' =
               refreshed(quiet_days,
                         request[1].do_device_update /\ request[1].covers,
                         DOMAIN sensor_data')
        /\ UNCHANGED awaiting
        /\ UNCHANGED sidevars
        /\ UNCHANGED setupvars

\* A direct call add_aqi_calculations(pa_sensors, cache=self._cache) of the
\* legacy utility by one PurpleAirApi instance, dt seconds after the last.
CallLegacyAddAqi ==
    \E i \in Instances, dt \in Dts, dict \in LegacyAqiInputs :
        LET aged == [j \in Instances |-> Older(own_cache[j], dt)]
            r == legacy_add_aqi_calculations(dict, aged[i],
                                             Older(global_cache, dt))
        IN  /\ call' = [fn |-> "legacy_add_aqi_calculations", instance |-> i,
                        data |-> dict]
            /\ sensors' = r.sensors
            /\ own_cache' = [aged EXCEPT ![i] = r.cache]
            /\ global_cache' = r.global
            /\ ret' = [value |-> None, confidence |-> ""]
            /\ warnings' = <<>>
            /\ raised' = ""
            /\ UNCHANGED <<WARNED_SENSORS, results, streak, logged>>
            /\ UNCHANGED v1vars
            /\ UNCHANGED <<steady, api, api_sensors>>
            /\ UNCHANGED entityvars
            /\ UNCHANGED refreshvars
            /\ UNCHANGED setupvars

\* async_update with any response, half an hour or more after the last
\* operation on the cache.
AsyncUpdate ==
    \E dt \in Dts, resp \in Responses :
        /\ Poll(dt, resp)
        /\ UNCHANGED sidevars
        /\ UNCHANGED refreshvars
        /\ UNCHANGED setupvars

\* async_update one scan interval after the last, with a response in which
\* station 100 reports humidity and pm2.5_cf_1.
SteadyUpdate ==
    \E resp \in SteadyResponses :
        /\ Poll(SCAN_INTERVAL, resp)
        /\ steady' = Min(steady + 1, MaxPolls)
        /\ UNCHANGED <<api, api_sensors, own_cache, global_cache>>
        /\ UNCHANGED entityvars
        /\ UNCHANGED refreshvars
        /\ UNCHANGED setupvars

\* async_migrate_entry called on a config entry.
MigrateEntry ==
    \E entry \in ConfigEntries :
        LET out == async_migrate_entry(entry)
        IN  /\ call' = [fn |-> "async_migrate_entry", entry |-> entry]
            /\ config_entry' = <<out.entry>>
            /\ ret' = [value |-> out.raised = "", confidence |-> ""]
            /\ raised' = out.raised
            /\ warnings' = <<>>
            /\ UNCHANGED legacyvars
            /\ UNCHANGED v1vars
            /\ UNCHANGED sidevars
            /\ UNCHANGED refreshvars
            /\ UNCHANGED startupvars
            /\ UNCHANGED registryvars

\* async_setup with `n` legacy entries among the config entries: the
\* domain data is made, with no legacy API yet.
AsyncSetup ==
    \E n \in 0..Cardinality(SensorIds) :
        /\ expected_entries = None
        /\ call' = [fn |-> "async_setup", entries |-> n]
        /\ expected_entries' = n
        /\ legacy_api' = FALSE
        /\ ret' = [value |-> TRUE, confidence |-> ""]
        /\ raised' = ""
        /\ warnings' = <<>>
        /\ UNCHANGED <<legacy_sensors, coordinator_data, refreshes>>
        /\ UNCHANGED legacyvars
        /\ UNCHANGED v1vars
        /\ UNCHANGED sidevars
        /\ UNCHANGED refreshvars
        /\ UNCHANGED entryvars
        /\ UNCHANGED registryvars

\* async_setup_entry of a legacy entry: the API and its coordinator are
\* made for the first one, the sensor is registered, and when the first
\* refresh is due it is awaited: it fails with ConfigEntryNotReady, or it
\* leaves the data of the sensors in `got` and expected_entries becomes 0.
SetupLegacyEntry ==
    \E config \in EntryConfigs, fails \in BOOLEAN, got \in SUBSET SensorIds :
        LET registry == legacy_register_sensor(
                            legacy_sensors, config.pa_sensor_id, config.title,
                            config.hidden, config.key)
            due == first_refresh_due(
                       expected_entries, legacy_get_sensor_count(registry),
                       config.pa_sensor_id \in coordinator_data)
        IN  /\ expected_entries # None
            /\ got \subseteq DOMAIN registry
            /\ ~due => (~fails /\ got = {})
            /\ fails => got = {}
            /\ call' = [fn |-> "async_setup_entry", config |-> config,
                        first_refresh |-> due]
            /\ legacy_api' = TRUE
            /\ legacy_sensors' = registry
            /\ refreshes' = IF due THEN Min(refreshes + 1, MaxRefreshes)
                            ELSE refreshes
            /\ expected_entries' = IF due /\ ~fails THEN 0
                                   ELSE expected_entries
            /\ coordinator_data' = IF due /\ ~fails THEN got
                                   ELSE coordinator_data
            /\ raised' = IF due /\ fails THEN "ConfigEntryNotReady" ELSE ""
            /\ ret' = [value |-> ~(due /\ fails), confidence |-> ""]
            /\ warnings' = IF legacy_api THEN <<>>
                           ELSE <<"Legacy v0 PurpleAir sensors detected">>
            /\ UNCHANGED legacyvars
            /\ UNCHANGED v1vars
            /\ UNCHANGED sidevars
            /\ UNCHANGED refreshvars
            /\ UNCHANGED entryvars
            /\ UNCHANGED registryvars
        /\ UNCHANGED registryvars

\* async_remove_entry of a legacy entry: the sensor is unregistered and
\* its data dropped, when there is a legacy coordinator.
RemoveLegacyEntry ==
    \E s \in SensorIds :
        /\ expected_entries # None
        /\ call' = [fn |-> "async_remove_entry", pa_sensor_id |-> s]
        /\ legacy_sensors' = IF legacy_api
                             THEN legacy_unregister_sensor(legacy_sensors, s)
                             ELSE legacy_sensors
        /\ coordinator_data' = IF legacy_api THEN coordinator_data \ {s}
                               ELSE coordinator_data
        /\ ret' = [value |-> None, confidence |-> ""]
        /\ raised' = ""
        /\ warnings' = <<>>
        /\ UNCHANGED <<expected_entries, legacy_api, refreshes>>
        /\ UNCHANGED legacyvars
        /\ UNCHANGED v1vars
        /\ UNCHANGED sidevars
        /\ UNCHANGED refreshvars
        /\ UNCHANGED entryvars
        /\ UNCHANGED registryvars

\* The parts of the state that a call on a registry leaves alone.
RegistryCall ==
    /\ ret' = [value |-> None, confidence |-> ""]
    /\ raised' = ""
    /\ warnings' = <<>>
    /\ UNCHANGED legacyvars
    /\ UNCHANGED v1vars
    /\ UNCHANGED sidevars
    /\ UNCHANGED refreshvars
    /\ UNCHANGED entryvars

\* A direct call of PurpleAirApiV1.register_sensor.
V1RegisterSensor ==
    \E config \in V1Configs :
        /\ call' = [fn |-> "v1.register_sensor", config |-> config]
        /\ v1_sensors' = register_sensor(v1_sensors, config.pa_sensor_id,
                                         config.name, config.hidden,
                                         config.read_key)
        /\ RegistryCall
        /\ UNCHANGED startupvars

\* A direct call of PurpleAirApiV1.unregister_sensor.
V1UnregisterSensor ==
    \E s \in Stations :
        /\ call' = [fn |-> "v1.unregister_sensor", pa_sensor_id |-> s]
        /\ v1_sensors' = unregister_sensor(v1_sensors, s)
        /\ RegistryCall
        /\ UNCHANGED startupvars

\* A direct call of PurpleAirApi.register_sensor.
LegacyRegisterSensor ==
    \E config \in SensorConfigs :
        /\ call' = [fn |-> "legacy.register_sensor", config |-> config]
        /\ legacy_sensors' = legacy_register_sensor(
                                 legacy_sensors, config.pa_sensor_id,
                                 config.title, config.hidden, config.key)
        /\ RegistryCall
        /\ UNCHANGED <<expected_entries, legacy_api, coordinator_data,
                       refreshes>>
        /\ UNCHANGED registryvars

\* A direct call of PurpleAirApi.unregister_sensor.
LegacyUnregisterSensor ==
    \E s \in SensorIds :
        /\ call' = [fn |-> "legacy.unregister_sensor", pa_sensor_id |-> s]
        /\ legacy_sensors' = legacy_unregister_sensor(legacy_sensors, s)
        /\ RegistryCall
        /\ UNCHANGED <<expected_entries, legacy_api, coordinator_data,
                       refreshes>>
        /\ UNCHANGED registryvars

\* The first statements of PurpleAirApi.update: the public and the
\* hidden sensors are listed in the order of their registration, and
\* _build_api_urls makes the URLs to fetch.
BuildApiUrls ==
    \E order \in Orders(DOMAIN legacy_sensors) :
        LET IsPublic(id) == ~legacy_sensors[id].hidden
            IsHidden(id) == legacy_sensors[id].hidden
            public_sensors == SelectSeq(order, IsPublic)
            private_sensors == SelectSeq(order, IsHidden)
        IN  /\ call' = [fn |-> "_build_api_urls",
                        public_sensors |-> public_sensors,
                        private_sensors |-> private_sensors]
            /\ ret' = [value |-> build_api_urls(legacy_sensors, public_sensors,
                                                private_sensors),
                       confidence |-> ""]
            /\ raised' = ""
            /\ warnings' = <<>>
            /\ UNCHANGED legacyvars
            /\ UNCHANGED v1vars
            /\ UNCHANGED sidevars
            /\ UNCHANGED refreshvars
            /\ UNCHANGED setupvars

\* A step of the config flow that adds a sensor: async_step_user or
\* async_step_add_sensor, with the API key of the other entries.
FlowStep ==
    \E step \in {"user", "add_sensor"}, api_key \in {"", "APIKEY"},
       user_input \in UserInputs, keys \in FlowKeysResponses,
       sensor \in FlowSensorResponses, configured \in BOOLEAN :
        LET out == IF step = "user"
                   THEN async_step_user(api_key, user_input, keys, sensor,
                                        configured)
                   ELSE async_step_add_sensor(api_key, user_input, keys,
                                              sensor, configured)
        IN  /\ (step = "add_sensor") => api_key # ""
            /\ call' = [fn |-> "async_step_" \o step, api_key |-> api_key,
                        user_input |-> user_input, keys |-> keys,
                        sensor |-> sensor, configured |-> configured]
            /\ ret' = [value |-> out.config, errors |-> out.errors,
                       called |-> out.called, result |-> out.result]
            /\ raised' = ""
            /\ warnings' = <<>>
            /\ UNCHANGED legacyvars
            /\ UNCHANGED v1vars
            /\ UNCHANGED sidevars
            /\ UNCHANGED refreshvars
            /\ UNCHANGED setupvars

NextMerge == CallGetPmReading

NextLegacy == Update

\* The legacy API polled with every batch.
SpecLegacy == Init /\ [][NextLegacy]_vars

\* The channel merge called directly, on every pair of readings.
SpecMerge == Init /\ [][NextMerge]_vars

NextCorrections == CallApplyCorrections \/ CallApplySensorCorrections

\* The two corrections called directly, on every pair of readings.
SpecCorrections == Init /\ [][NextCorrections]_vars

NextAqi == CallAddAqiCalculations

\* The v1 add_aqi_calculations called directly on one cache.
SpecAqi == Init /\ [][NextAqi]_vars

NextV1 == AsyncUpdate

\* The v1 API polled with every response.
SpecV1 == Init /\ [][NextV1]_vars

NextLegacyAqi == CallLegacyAddAqi

\* The legacy add_aqi_calculations called directly by two API instances,
\* each with its own cache.
SpecLegacyAqi == Init /\ [][NextLegacyAqi]_vars

NextCoordinator == RegisterSensor \/ UnregisterSensor \/ CoordinatorUpdate

\* The v1 coordinator: stations registered and unregistered between polls.
SpecCoordinator == Init /\ [][NextCoordinator]_vars

NextRefresh == RegisterSensor \/ UnregisterSensor \/ BeginUpdate \/ EndUpdate

\* The v1 coordinator: stations registered and unregistered also while a
\* poll is suspended at its request.
SpecRefresh == Init /\ [][NextRefresh]_vars

NextCalc == CallCalcAqi

\* calc_aqi called directly.
SpecCalc == Init /\ [][NextCalc]_vars

NextConfig == CallGetApiSensorConfig

\* get_api_sensor_config called on every pair of responses.
SpecConfig == Init /\ [][NextConfig]_vars

NextEntity == ReadAvailable

\* The sensor entities read for their availability.
SpecEntity == Init /\ [][NextEntity]_vars

NextConverge == SteadyUpdate

\* The v1 API polled every scan interval, from an empty cache.
SpecConverge == Init /\ [][NextConverge]_vars

NextMigrate == MigrateEntry

\* async_migrate_entry called on the entries of every version.
SpecMigrate == Init /\ [][NextMigrate]_vars

NextStartup == AsyncSetup \/ SetupLegacyEntry \/ RemoveLegacyEntry

\* The legacy entries set up after async_setup, and removed.
SpecStartup == Init /\ [][NextStartup]_vars

NextRegistry ==
    \/ V1RegisterSensor
    \/ V1UnregisterSensor
    \/ LegacyRegisterSensor
    \/ LegacyUnregisterSensor

\* The registries of a v1 and of a legacy API instance, called directly.
SpecRegistry == Init /\ [][NextRegistry]_vars

NextUrls == LegacyRegisterSensor \/ LegacyUnregisterSensor \/ BuildApiUrls

\* The URLs of a legacy update, for every registry of the legacy API.
SpecUrls == Init /\ [][NextUrls]_vars

NextFlow == FlowStep

\* The steps of the config flow on every input and answer of the server.
SpecFlow == Init /\ [][NextFlow]_vars

----------------------------------------------------------------------------
(* Properties                                                              *)

IsMerge == call.fn = "get_pm_reading"

IsPmMerge == IsMerge /\ call.prop \in PM_PROPERTIES

\* C2: a merge of two particulate readings below MAX_PM_READING returns
\* their mean rounded to one decimal (a multiple of 0.1 at most 0.05 from
\* the mean), with confidence "good" exactly when they differ by less than
\* 45 and "questionable" otherwise.
C2_BothValid ==
    (IsPmMerge /\ call.a < MAX_PM_READING /\ call.b < MAX_PM_READING) =>
        /\ ret.value = RoundAvg1(call.a, call.b)
        /\ ret.value % 10 = 0
        /\ Abs(2 * ret.value - (call.a + call.b)) <= 10
        /\ ret.confidence = "good" <=> Abs(call.a - call.b) < 4500
        /\ ret.confidence = "questionable" <=> Abs(call.a - call.b) >= 4500

\* C2 witness: two readings exactly 45.00 apart merge as "questionable".
C2_Witness ==
    /\ IsPmMerge /\ call.a = 1000 /\ call.b = 5500
    /\ ret.value = 3250 /\ ret.confidence = "questionable"

\* C3: in a particulate merge a reading at or above MAX_PM_READING is bad:
\* only A below it gives (round(A,1), "single - b channel bad"), only B
\* below it gives (round(B,1), "single - a channel bad"), neither gives
\* (None, "invalid"); the bad reading is no part of the value.
C3_FaultyChannel ==
    IsPmMerge =>
        LET a_ok == call.a < MAX_PM_READING
            b_ok == call.b < MAX_PM_READING
        IN  /\ (a_ok /\ ~b_ok) =>
                /\ ret.value = Round1(call.a)
                /\ Abs(ret.value - call.a) <= 5
                /\ ret.confidence = "single - b channel bad"
            /\ (~a_ok /\ b_ok) =>
                /\ ret.value = Round1(call.b)
                /\ Abs(ret.value - call.b) <= 5
                /\ ret.confidence = "single - a channel bad"
            /\ (~a_ok /\ ~b_ok) =>
                /\ ret.value = None
                /\ ret.confidence = "invalid"

\* C3 witness: channel A reads exactly the ceiling and B a valid value.
C3_Witness ==
    /\ IsPmMerge /\ call.a = MAX_PM_READING /\ call.b = 3012
    /\ ret.value = 3010 /\ ret.confidence = "single - a channel bad"

NoDuplicates(s) == Cardinality(Range(s)) = Len(s)

\* C7, the states: after a bad-channel merge the station is in
\* WARNED_SENSORS, after a merge of two valid readings it is not, and the
\* list holds no station twice.
C7_State ==
    /\ NoDuplicates(WARNED_SENSORS)
    /\ (IsPmMerge /\ ret.confidence \in BadLabels) =>
            call.sensor \in Range(WARNED_SENSORS)
    /\ (IsPmMerge /\ call.a < MAX_PM_READING /\ call.b < MAX_PM_READING) =>
            call.sensor \notin Range(WARNED_SENSORS)

\* C7, the steps: a bad-channel merge of a station that is not in
\* WARNED_SENSORS logs one warning for it, and one of a station that is in
\* it logs none; the other stations stay as they were.
C7_Step ==
    (call'.fn = "get_pm_reading" /\ call'.prop \in PM_PROPERTIES) =>
        /\ \A s \in Stations \ {call'.sensor} :
              (s \in Range(WARNED_SENSORS')) <=> (s \in Range(WARNED_SENSORS))
        /\ ret'.confidence \in BadLabels =>
              IF call'.sensor \in Range(WARNED_SENSORS)
              THEN warnings' = <<>>
              ELSE /\ Len(warnings') = 1
                   /\ warnings'[1].sensor = call'.sensor
                   /\ warnings'[1].prop = call'.prop

\* C7: membership of WARNED_SENSORS follows the merges: in after a
\* bad-channel merge, out after the next merge of two valid readings, a new
\* warning for a bad-channel merge after that, and never a station twice.
C7_WarnedSet == [](C7_State) /\ [][C7_Step]_vars

\* C7 witness: a station warned, recovered and warned again.
C7_Witness ==
    /\ IsPmMerge /\ ret.confidence \in BadLabels
    /\ Len(warnings) = 1
    /\ logged[call.sensor] >= 2
    /\ call.sensor \in Range(WARNED_SENSORS)

----------------------------------------------------------------------------
(* Properties of the legacy pipeline                                       *)

Updated == call.fn = "update"

\* The station a raw record is for.
StationOf(result) ==
    IF result.ParentID # Absent THEN result.ParentID ELSE result.ID

\* A record with neither ID nor ParentID.
Malformed(result) == result.ID = Absent /\ result.ParentID = Absent

HasEntry(s) == IndexOf(sensors, s) # 0

Entry(s) == sensors[IndexOf(sensors, s)]

\* The values of the station's channel-A and channel-B records in the
\* batch; all None without such a record.
ChannelA(s) ==
    IF \E i \in DOMAIN results : results[i].ID = s /\ results[i].ParentID = Absent
    THEN results[CHOOSE i \in DOMAIN results :
                    results[i].ID = s /\ results[i].ParentID = Absent].vals
    ELSE NoValues

ChannelB(s) ==
    IF \E i \in DOMAIN results : results[i].ParentID = s
    THEN results[CHOOSE i \in DOMAIN results : results[i].ParentID = s].vals
    ELSE NoValues

HasData(vals) == \E p \in JsonProps : vals[p] # None

\* C1: no batch fails because of a malformed record: update raises
\* nothing, and every record that is not malformed has its station entry
\* in the result.
C1_MalformedSkipped ==
    Updated =>
        /\ raised = ""
        /\ \A i \in DOMAIN results :
              ~Malformed(results[i]) => HasEntry(StationOf(results[i]))

\* C4: a station with channel-A data and no channel-B data has, for every
\* particulate metric A reports, the value round(A,1) with confidence
\* "single".
C4_SingleChannel ==
    (Updated /\ raised = "") =>
        \A s \in Stations :
            (HasData(ChannelA(s)) /\ ~HasData(ChannelB(s))) =>
                \A p \in PM_PROPERTIES :
                    ChannelA(s)[p] # None =>
                        /\ Entry(s).value[p] = Round1(ChannelA(s)[p])
                        /\ Entry(s).confidence[p] = "single"

NonPmProperties == JsonProps \ PM_PROPERTIES

\* C5: for every station of the result, a non-particulate metric that
\* channel A reports has confidence "good" (and the pressure, which no
\* correction changes, is round(A,1)); one that A does not report is None
\* with no confidence.
C5_NonParticulate ==
    (Updated /\ raised = "") =>
        \A s \in Stations :
            HasEntry(s) =>
                \A p \in NonPmProperties :
                    IF ChannelA(s)[p] # None
                    THEN /\ Entry(s).confidence[p] = "good"
                         /\ p = API_ATTR_PRESSURE =>
                                Entry(s).value[p] = Round1(ChannelA(s)[p])
                    ELSE /\ Entry(s).value[p] = None
                         /\ Entry(s).confidence[p] = ""

\* C6: while a station has a bad-channel particulate metric in every
\* poll, at most one warning is logged for it.
C6_OneWarningWhileDegraded == \A s \in Stations : streak[s] <= 1

----------------------------------------------------------------------------
(* Properties of the corrections                                           *)

Corrected == call.fn \in {"apply_corrections", "apply_sensor_corrections"}

\* C8: both corrections return t - 8 for every temperature t that is not
\* None, 0 included, and h + 4 for every humidity h that is not None,
\* 0 included; a None temperature or humidity stays None.
C8_BiasCorrection ==
    Corrected =>
        /\ ret.temperature =
              IF call.temperature # None THEN call.temperature - 800 ELSE None
        /\ ret.humidity =
              IF call.humidity # None THEN call.humidity + 400 ELSE None

----------------------------------------------------------------------------
(* Properties of the v1 cache                                              *)

AqiCalled == call.fn = "add_aqi_calculations"

\* The last sample of the station's queue was appended by the last
\* operation.
AppendedNow(s) == Len(cache[s]) > 0 /\ cache[s][Len(cache[s])].age = 0

\* C9: after add_aqi_calculations, for every station of the dictionary:
\* its queue ends with a new sample of its humidity and pm2_5_cf_1, and
\* its EPA AQI and status are set, if and only if neither its pm2_5_cf_1
\* nor its humidity is None (0 is a value).
C9_SampleIffBothPresent ==
    AqiCalled =>
        \A s \in DOMAIN call.data :
            LET present == /\ call.data[s].pm2_5_cf_1 # None
                           /\ call.data[s].humidity # None
            IN  /\ present <=> AppendedNow(s)
                /\ present =>
                      /\ cache[s][Len(cache[s])].hum = call.data[s].humidity
                      /\ cache[s][Len(cache[s])].pm25 = call.data[s].pm2_5_cf_1
                /\ present <=> sensor_data[s].pm2_5_aqi_epa # None
                /\ present <=> sensor_data[s].pm2_5_aqi_epa_status # NoStatus

\* A call on a station whose humidity and pm2_5_cf_1 are both 0, and one
\* on a station that lacks one of them, in the same dictionary or not.
C9_Witness ==
    /\ AqiCalled
    /\ "100" \in DOMAIN call.data
    /\ call.data["100"].humidity = 0
    /\ call.data["100"].pm2_5_cf_1 = 0
    /\ AppendedNow("100")
    /\ Len(cache["100"]) = 2
    /\ sensor_data["100"].pm2_5_aqi_epa = 24
    /\ sensor_data["100"].pm2_5_aqi_epa_status = "calculating (50 mins left)"

Polled == call.fn = "async_update" /\ raised = ""

\* Whether the row has a value, not null, in the column.
Reports(row, field) == field \in call.resp.fields /\ row[field] # None

\* C10: after a poll of the v1 API, for every row of the response: a
\* sample was appended to the queue of the row's station exactly when the
\* row reports both humidity and pm2.5_cf_1.
C10_SampleWhenRowReportsBoth ==
    Polled =>
        \A i \in DOMAIN call.resp.data :
            LET row == call.resp.data[i]
            IN  (Reports(row, "humidity") /\ Reports(row, "pm2.5_cf_1"))
                    <=> AppendedNow(StrOf(row["sensor_index"]))

\* The queue after the step is the queue before it without its first
\* sample, every other sample kept in its place and older by the same
\* time, and one new sample at the end.
DropsOldest(s) ==
    LET dt == cache'[s][1].age - cache[s][2].age
    IN  /\ Len(cache'[s]) = CacheMaxLen
        /\ dt > 0
        /\ \A i \in 1..(CacheMaxLen - 1) :
              cache'[s][i] = [cache[s][i + 1] EXCEPT !.age = @ + dt]
        /\ cache'[s][CacheMaxLen].age = 0

\* C11: no queue of the cache ever holds more than 12 samples, and a
\* sample appended to a queue of 12 drops the oldest one and keeps the
\* other 11 in creation order.
C11_CacheBound ==
    /\ [](\A s \in Stations : Len(cache[s]) <= 12)
    /\ [][\A s \in Stations :
             (Len(cache[s]) = 12 /\ Len(cache'[s]) > 0
                 /\ cache'[s][Len(cache'[s])].age = 0)
             => DropsOldest(s)]_vars

\* A full queue after thirteen polls, of samples of both kinds.
C11_Witness ==
    /\ steady = 13
    /\ Len(cache["100"]) = 12
    /\ cache["100"][1].pm25 = 40000
    /\ cache["100"][1].age = 3300
    /\ cache["100"][12].pm25 = 2000

\* The station is in the dictionary of the call with both metrics.
BothPresent(data, s) ==
    /\ s \in DOMAIN data
    /\ data[s].pm2_5_cf_1 # None
    /\ data[s].humidity # None

\* The samples of the queue that are an hour old at most.
Fresh(q) == SelectSeq(q, LAMBDA v : v.age <= 3600)

\* C12: a call of add_aqi_calculations leaves, in the queue of every
\* station it processes with both metrics, exactly the samples the queue
\* had that are at most 3600 seconds old at the call, in their order,
\* and the new sample after them; the EPA AQI it sets is the one of the
\* averages over that queue, which is never empty.
C12_Eviction ==
    [][(call'.fn = "add_aqi_calculations") =>
          \A s \in Stations :
              BothPresent(call'.data, s) =>
                  /\ \E dt \in Dts :
                        cache'[s] =
                            Append(Fresh(Older(cache, dt)[s]),
                                   [hum |-> call'.data[s].humidity,
                                    pm25 |-> call'.data[s].pm2_5_cf_1,
                                    age |-> 0])
                  /\ \A i \in DOMAIN cache'[s] : cache'[s][i].age <= 3600
                  /\ Len(cache'[s]) >= 1
                  /\ sensor_data'[s].pm2_5_aqi_epa =
                        calc_aqi(EpaCorrected(Avg5(cache'[s], "pm25"),
                                              Avg5(cache'[s], "hum")), "pm2_5")
      ]_vars

\* A call that found two old entries in the queue of station 100 and left
\* the new sample alone in it, its AQI the one of that sample.
C12_Witness ==
    /\ AqiCalled
    /\ BothPresent(call.data, "100")
    /\ info["100"] = 2
    /\ cache["100"] = <<[hum |-> 0, pm25 |-> 0, age |-> 0]>>
    /\ sensor_data["100"].pm2_5_aqi_epa = 24

\* The status of a queue of 1, 2, ..., 12 samples.
ExpectedStatus ==
    <<"calculating (55 mins left)", "calculating (50 mins left)",
      "calculating (45 mins left)", "calculating (40 mins left)",
      "calculating (35 mins left)", "calculating (30 mins left)",
      "calculating (25 mins left)", "calculating (20 mins left)",
      "calculating (15 mins left)", "calculating (10 mins left)",
      "calculating (5 mins left)", "stable">>

\* C13: after a poll, the EPA status of every station whose corrected AQI
\* was computed is "stable" when its queue holds 12 samples and
\* "calculating (N mins left)" with N = (12 - count) * 5 when it holds
\* count < 12, so N is one of 5, 10, ..., 55.
C13_Status ==
    Polled =>
        \A s \in DOMAIN sensor_data :
            sensor_data[s].pm2_5_aqi_epa_status # NoStatus =>
                /\ Len(cache[s]) \in 1..12
                /\ sensor_data[s].pm2_5_aqi_epa_status
                      = ExpectedStatus[Len(cache[s])]

\* A poll that leaves 12 samples and one that leaves 11.
C13_Witness ==
    /\ Polled
    /\ Len(cache["100"]) = 12
    /\ sensor_data["100"].pm2_5_aqi_epa_status = "stable"
    /\ "200" \in DOMAIN sensor_data
    /\ sensor_data["200"].pm2_5_aqi_epa_status = NoStatus

\* C14: when station 100 reports both metrics on every poll and the polls
\* are one scan interval apart, its status after the k-th poll is
\* "calculating (N mins left)" with N = (12 - k) * 5 for k < 12, 5 less
\* at every poll, and "stable" after the 12th poll and every later one.
C14_Convergence ==
    steady >= 1 =>
        /\ "100" \in DOMAIN sensor_data
        /\ steady < 12 =>
              sensor_data["100"].pm2_5_aqi_epa_status = ExpectedStatus[steady]
        /\ steady >= 12 =>
              sensor_data["100"].pm2_5_aqi_epa_status = "stable"

\* The 13th poll: the status stays "stable" after the poll that made it.
C14_Witness ==
    /\ steady = 13
    /\ sensor_data["100"].pm2_5_aqi_epa_status = "stable"
    /\ cache["100"][1].age = 3300
    /\ info["100"] = 0

\* C16: a call of add_aqi_calculations leaves the queue of every station
\* that is not in the dictionary, or is in it without pm2_5_cf_1 or
\* without humidity, with the samples it had, old ones included, each
\* older by the time since the last call; the queue of a station with
\* both metrics keeps what it had that is an hour old at most.
C16_Independence ==
    [][(call'.fn = "add_aqi_calculations") =>
          \E dt \in Dts :
              \A s \in Stations :
                  IF BothPresent(call'.data, s)
                  THEN SubSeq(cache'[s], 1, Len(cache'[s]) - 1)
                          = Fresh(Older(cache, dt)[s])
                  ELSE cache'[s] = Older(cache, dt)[s]
      ]_vars

\* A call that appended a sample for station 100 and had no reading of
\* station 200, whose queue still holds a sample older than an hour.
C16_Witness ==
    /\ AqiCalled
    /\ "200" \notin DOMAIN call.data
    /\ AppendedNow("100")
    /\ Len(cache["100"]) >= 2
    /\ \E i \in DOMAIN cache["200"] : cache["200"][i].age > 3600

\* C17: no operation of the coordinator loses a sample that is less than
\* an hour old: after register_sensor and unregister_sensor, which take no
\* time, every such sample of a station is still in its queue, and a poll
\* leaves a queue as it was or with the samples of at most an hour
\* followed by the new one.
C17_CacheLifetime ==
    [][/\ (call'.fn \in {"register_sensor", "unregister_sensor"}) =>
             \A s \in Stations :
                 \A i \in DOMAIN cache[s] :
                     (cache[s][i].age < 3600) =>
                         \E j \in DOMAIN cache'[s] : cache'[s][j] = cache[s][i]
       /\ (call'.fn \in {"async_update", "_async_update_data"}) =>
             \E dt \in Dts :
                 \A s \in Stations :
                     \/ cache'[s] = Older(cache, dt)[s]
                     \/ SubSeq(cache'[s], 1, Len(cache'[s]) - 1)
                           = Fresh(Older(cache, dt)[s])
      ]_vars

----------------------------------------------------------------------------
(* Properties of the legacy add_aqi_calculations                           *)

LegacyAqiCalled == call.fn = "legacy_add_aqi_calculations"

\* The queue that took the station's sample in the last call.
SampleQueue(s) ==
    IF Len(own_cache[call.instance][s]) > 0
          /\ own_cache[call.instance][s][Len(own_cache[call.instance][s])].age = 0
    THEN own_cache[call.instance][s]
    ELSE global_cache[s]

\* C15: the EPA AQI that add_aqi_calculations sets for a station with
\* both metrics is calc_aqi of the corrected concentration: the linear
\* formula 0.52 pm - 0.086 hum + 5.75 of the queue's averages when the
\* PM2.5 average is at most 343 and the quadratic one above it, never
\* less than 0, so the AQI is a number.
C15_EpaFormula ==
    LegacyAqiCalled =>
        \A i \in DOMAIN sensors :
            (sensors[i].value["pm2_5_cf_1"] # None
                /\ sensors[i].value[API_ATTR_HUMIDITY] # None) =>
                LET q == SampleQueue(sensors[i].pa_sensor_id)
                IN  /\ sensors[i].value[API_ATTR_PM25_AQI] # None
                    /\ sensors[i].value[API_ATTR_PM25_AQI] =
                          calc_aqi(EpaCorrected(Avg5(q, "pm25"), Avg5(q, "hum")),
                                   "pm2_5")

\* C18: a call add_aqi_calculations(pa_sensors, cache=c) of an API
\* instance appends the samples to c, the instance's own cache, and
\* counts the samples of c alone; the cache kept by the function is not
\* used, so no instance sees the samples of another.
C18_OwnCache ==
    LegacyAqiCalled =>
        /\ Falsy(global_cache)
        /\ \A i \in DOMAIN sensors :
              (sensors[i].value["pm2_5_cf_1"] # None
                  /\ sensors[i].value[API_ATTR_HUMIDITY] # None) =>
                  LET q == own_cache[call.instance][sensors[i].pa_sensor_id]
                  IN  /\ Len(q) > 0
                      /\ q[Len(q)].age = 0
                      /\ sensors[i].status[API_ATTR_PM25_AQI]
                            = ExpectedStatus[Len(q)]

----------------------------------------------------------------------------
(* Properties of calc_aqi                                                  *)

CalcCalled == call.fn = "calc_aqi"

\* The bands of the PM2.5 table that hold the value.
Bands(value) ==
    {i \in DOMAIN AQI_BREAKPOINTS :
        AQI_BREAKPOINTS[i].pm_low <= value /\ value <= AQI_BREAKPOINTS[i].pm_high}

\* C19: calc_aqi returns None, and raises nothing, when the index is not
\* a key of AQI_BREAKPOINTS and when no band of the table holds the value
\* (negative, above 999.9, between two bands); in every other case it
\* returns an integer.
C19_NoneOrInteger ==
    CalcCalled =>
        /\ raised = ""
        /\ IF call.index # "pm2_5" \/ Bands(call.value) = {}
           THEN ret.value = None
           ELSE ret.value # None /\ ret.value \in Int /\ ret.value \in 0..999

\* A PM2.5 value between the first two bands has no AQI.
C19_Witness ==
    /\ CalcCalled
    /\ call.index = "pm2_5"
    /\ call.value = 1205
    /\ ret.value = None

\* C20: for PM2.5, the low end of every band gives the low end of its AQI
\* range and the high end the high end (0 -> 0, 12.0 -> 50, 12.1 -> 51,
\* 35.4 -> 100, 500.5 -> 501, 999.9 -> 999), and a value inside a band
\* gives an AQI inside the band's range, so between 0 and 999.
C20_BandEnds ==
    (CalcCalled /\ call.index = "pm2_5") =>
        /\ \A i \in Bands(call.value) :
              LET bp == AQI_BREAKPOINTS[i]
              IN  /\ (call.value = bp.pm_low) => ret.value = bp.aqi_low
                  /\ (call.value = bp.pm_high) => ret.value = bp.aqi_high
                  /\ bp.aqi_low <= ret.value /\ ret.value <= bp.aqi_high
                  /\ ret.value \in 0..999
        /\ (call.value = 0) => ret.value = 0
        /\ (call.value = 1200) => ret.value = 50
        /\ (call.value = 1210) => ret.value = 51
        /\ (call.value = 3540) => ret.value = 100
        /\ (call.value = 50050) => ret.value = 501
        /\ (call.value = 99990) => ret.value = 999

\* The high end of the last band.
C20_Witness ==
    /\ CalcCalled
    /\ call.index = "pm2_5"
    /\ call.value = 99990
    /\ ret.value = 999

\* C21: the PM2.5 table has no gap: every concentration from 0 to 999.9,
\* whatever its resolution (12.05 for one), lies in a band, and calc_aqi
\* returns an integer for it.
C21_NoGaps ==
    (CalcCalled /\ call.index = "pm2_5"
        /\ 0 <= call.value /\ call.value <= 99990) =>
        /\ Bands(call.value) # {}
        /\ ret.value # None
        /\ ret.value \in 0..999

\* C22: the PM2.5 table has exactly eight entries, and no concentration
\* lies in two of them.
C22_Disjoint ==
    CalcCalled =>
        /\ Len(AQI_BREAKPOINTS) = 8
        /\ Cardinality(Bands(call.value)) <= 1

\* C23: of two calls of calc_aqi for PM2.5, one after the other, on
\* values of the same band, the one on the greater value returns no
\* smaller AQI (the calls run through every tenth of every band, so the
\* order holds between any two tenths of a band).
C23_Monotonic ==
    [][(/\ call.fn = "calc_aqi" /\ call'.fn = "calc_aqi"
        /\ call.index = "pm2_5" /\ call'.index = "pm2_5"
        /\ Bands(call.value) \cap Bands(call'.value) # {}) =>
           /\ (call.value <= call'.value) => ret.value <= ret'.value
           /\ (call.value >= call'.value) => ret.value >= ret'.value
      ]_vars

\* The call on the high end of the fifth band, after the calls on the
\* tenths below it.
C23_Witness ==
    /\ CalcCalled
    /\ call.index = "pm2_5"
    /\ call.value = 25040
    /\ ret.value = 300

----------------------------------------------------------------------------
(* Properties of the legacy pipeline, end to end                           *)

\* The channel-A record of the station in the batch.
HasRecordA(s) ==
    \E i \in DOMAIN results : results[i].ID = s /\ results[i].ParentID = Absent

RecordA(s) ==
    results[CHOOSE i \in DOMAIN results :
                results[i].ID = s /\ results[i].ParentID = Absent]

\* C24: whatever the order of the records, a station that has a
\* channel-A record in the batch takes its metadata (label, last_seen)
\* from that record, and build_sensors stores the values of its
\* channel-B record as its channel-B readings only.
C24_MetadataFromA ==
    (Updated /\ raised = "") =>
        \A s \in Stations :
            HasRecordA(s) =>
                /\ HasEntry(s)
                /\ Entry(s).label = RecordA(s).Label
                /\ Entry(s).last_seen = RecordA(s).LastSeen
                /\ LET built == build_sensors(results).sensors
                       i == IndexOf(built, s)
                   IN  /\ built[i].channels["A"] = ChannelA(s)
                       /\ built[i].channels["B"] = ChannelB(s)

\* A value a channel reports that is below the ceiling.
ValidPm(v) == v # None /\ v < MAX_PM_READING

\* C25: a station whose channels both report a valid pm2_5_atm, less than
\* 45 apart, has pm2_5_atm = round((A+B)/2, 1) with confidence "good",
\* the humidity of A plus 4, the temperature of A minus 8 and the instant
\* AQI of the fused pm2_5_atm; for A = (30.0, humidity 45, temp_f 70) and
\* B = 32.0 these are 31.0, 49, 62 and 90.
C25_EndToEnd ==
    (Updated /\ raised = "") =>
        \A s \in Stations :
            LET a == ChannelA(s)
                b == ChannelB(s)
            IN  (/\ ValidPm(a[API_ATTR_PM25]) /\ ValidPm(b[API_ATTR_PM25])
                 /\ Abs(a[API_ATTR_PM25] - b[API_ATTR_PM25]) < 4500) =>
                    /\ HasEntry(s)
                    /\ Entry(s).value[API_ATTR_PM25]
                          = RoundAvg1(a[API_ATTR_PM25], b[API_ATTR_PM25])
                    /\ Entry(s).confidence[API_ATTR_PM25] = "good"
                    /\ (a[API_ATTR_HUMIDITY] # None) =>
                          Entry(s).value[API_ATTR_HUMIDITY]
                              = Round1(a[API_ATTR_HUMIDITY]) + 400
                    /\ (a[API_ATTR_TEMP_F] # None) =>
                          Entry(s).value[API_ATTR_TEMP_F]
                              = Round1(a[API_ATTR_TEMP_F]) - 800
                    /\ Entry(s).value[API_ATTR_PM25_AQI_RAW]
                          = calc_aqi(Entry(s).value[API_ATTR_PM25], "pm2_5")
                    /\ (/\ a[API_ATTR_PM25] = 3000 /\ b[API_ATTR_PM25] = 3200
                        /\ a[API_ATTR_HUMIDITY] = 4500
                        /\ a[API_ATTR_TEMP_F] = 7000) =>
                          /\ Entry(s).value[API_ATTR_PM25] = 3100
                          /\ Entry(s).value[API_ATTR_HUMIDITY] = 4900
                          /\ Entry(s).value[API_ATTR_TEMP_F] = 6200
                          /\ Entry(s).value[API_ATTR_PM25_AQI_RAW] = 90

\* C28: the readings update() returns for a batch are the ones the three
\* steps give for it with an empty WARNED_SENSORS and new caches,
\* whatever earlier runs left in WARNED_SENSORS: two runs on the same
\* batch return the same values, confidence labels, AQI and status.
C28_Deterministic ==
    (Updated /\ raised = "") =>
        LET fresh == [s \in Stations |-> <<>>]
            built == build_sensors(results).sensors
            calc == calculate_sensor_values(built, <<>>, <<>>).sensors
        IN  sensors = legacy_add_aqi_calculations(calc, fresh, fresh).sensors

\* A run on a batch with a faulty channel of station 100 whose log is not
\* the one of a run with an empty WARNED_SENSORS: what an earlier run
\* left there kept a warning back.
C28_Witness ==
    /\ Updated
    /\ raised = ""
    /\ Degraded(sensors, "100")
    /\ Len(warnings) = 1
    /\ Len(calculate_sensor_values(build_sensors(results).sensors,
                                   <<>>, <<>>).log) = 2

----------------------------------------------------------------------------
(* Properties of a v1 poll                                                 *)

\* The row of the station in the response of the last poll.
HasRow(s) ==
    \E i \in DOMAIN call.resp.data : StrOf(call.resp.data[i]["sensor_index"]) = s

RowOf(s) ==
    call.resp.data[CHOOSE i \in DOMAIN call.resp.data :
                       StrOf(call.resp.data[i]["sensor_index"]) = s]

\* C29: after a poll, for every station of the response: the sample the
\* poll appended to its queue, if any, holds the humidity of its row plus
\* 4, once, which is also the humidity returned; and its instant AQI is
\* the one of the pm2_5_atm returned, which is the one of its row.
C29_StepOrder ==
    Polled =>
        \A s \in Stations :
            HasRow(s) =>
                /\ s \in DOMAIN sensor_data
                /\ AppendedNow(s) =>
                      /\ Reports(RowOf(s), "humidity")
                      /\ cache[s][Len(cache[s])].hum = RowOf(s)["humidity"] + 400
                      /\ sensor_data[s].humidity = RowOf(s)["humidity"] + 400
                /\ Reports(RowOf(s), "pm2.5_atm") =>
                      /\ sensor_data[s].pm2_5_atm = RowOf(s)["pm2.5_atm"]
                      /\ sensor_data[s].pm2_5_aqi_instant
                            = calc_aqi(RowOf(s)["pm2.5_atm"], "pm2_5")

\* A poll whose row of station 100 has a humidity of 50 and a pm2.5_atm of
\* 12.1: the sample holds 54 and the instant AQI is 51.
C29_Witness ==
    /\ Polled
    /\ HasRow("100")
    /\ RowOf("100")["humidity"] = 5000
    /\ AppendedNow("100")
    /\ cache["100"][Len(cache["100"])].hum = 5400
    /\ sensor_data["100"].pm2_5_aqi_instant = 51

----------------------------------------------------------------------------
(* Properties of get_api_sensor_config                                     *)

ConfigCalled == call.fn = "get_api_sensor_config"

\* C26: get_api_sensor_config returns an ApiConfigEntry or raises
\* PurpleAirApiConfigError, and nothing else, for every status and body
\* of the keys request and of the sensor request, a sensor response of
\* 401, 403 or 429 included.
C26_ConfigOrConfigError ==
    ConfigCalled =>
        \/ raised = "PurpleAirApiConfigError" /\ ret.value = <<>>
        \/ /\ raised = ""
           /\ Len(ret.value) = 1
           /\ DOMAIN ret.value[1] = {"pa_sensor_id", "name", "hidden", "read_key"}

----------------------------------------------------------------------------
(* Properties of the sensor entities                                       *)

\* C27: `available` is False whenever the station's last update is more
\* than 5400 seconds old, a day or more included, and a stale warning is
\* never logged for an entity that was warned and has not been available
\* since.
C27_Stale ==
    [][(call'.fn = "available") =>
          /\ (call'.has_data /\ call'.elapsed > 5400) => ret'.value = FALSE
          /\ ("stale" \in Range(warnings')) => ~stale_warned[call'.entity]
      ]_vars

\* C36: the v1 AQI entity is available whenever its station has an EPA
\* AQI, 0 included, and was last seen 5400 seconds ago or less.
C36_AqiAvailable ==
    (/\ call.fn = "available"
     /\ call.entity = "v1_aqi"
     /\ call.has_data
     /\ call.aqi_epa # None
     /\ call.elapsed <= 5400) => ret.value = TRUE

----------------------------------------------------------------------------
(* Properties of the device refresh                                        *)

\* The step makes the request of a poll.
RequestMade == ~InFlight /\ call'.fn \in {"session.get", "async_update"}

\* C31: the first request that includes a station after its registration
\* is made with do_device_update = True, also when the station was
\* registered while another request was suspended; and a request made
\* less than a day after a poll returned device data, with no
\* registration since that poll was requested, is made with
\* do_device_update = False.
C31_DeviceRefresh ==
    [][RequestMade =>
          /\ \A s \in awaiting \cap request'[1].show_only :
                 request'[1].do_device_update
          /\ (request'[1].quiet = 0) => ~request'[1].do_device_update
      ]_vars

----------------------------------------------------------------------------
(* Properties of the integration's setup                                   *)

\* The keys of the data that a migration may change.
MigratedKeys == {"id", "node_id", "pa_sensor_id", "api_key", "api_version"}

\* C32: async_migrate_entry leaves an entry of version 1, 2 or 3 at
\* version 4, with pa_sensor_id the sensor id it had under 'id',
\* 'node_id' or 'pa_sensor_id', api_version 0, api_key '', neither 'id'
\* nor 'node_id', and every other key as it was; an entry of version 4 is
\* left as it is.
C32_Migration ==
    (call.fn = "async_migrate_entry") =>
        LET entry == call.entry
            after == config_entry[1]
        IN  /\ raised = ""
            /\ after.version = 4
            /\ IF entry.version = 4
               THEN after = entry
               ELSE /\ after.data["pa_sensor_id"]
                          = entry.data[IdKey(entry.version)]
                    /\ after.data["pa_sensor_id"] # <<>>
                    /\ after.data["api_version"] = <<0>>
                    /\ after.data["api_key"] = <<"">>
                    /\ after.data["id"] = <<>>
                    /\ after.data["node_id"] = <<>>
                    /\ \A k \in DataKeys \ MigratedKeys :
                           after.data[k] = entry.data[k]

\* An entry of version 1 for the hidden station 100 was migrated.
C32_Witness ==
    /\ call.fn = "async_migrate_entry"
    /\ call.entry.version = 1
    /\ call.entry.data["id"] = <<"100">>
    /\ config_entry[1].version = 4
    /\ config_entry[1].data["pa_sensor_id"] = <<"100">>
    /\ config_entry[1].data["key"] = <<"K1">>
    /\ config_entry[1].data["hidden"] = <<TRUE>>

\* The sensors registered with the legacy API.
LegacyCount == legacy_get_sensor_count(legacy_sensors)

\* The step sets up a legacy entry while N > 0 startup entries are
\* expected.
StartupEntry == call'.fn = "async_setup_entry" /\ expected_entries > 0

\* C33 as stated: while N > 0 entries are expected the first refresh is
\* not requested with fewer than N sensors registered, it is requested
\* when the N-th is registered and expected_entries is 0 afterwards, and
\* no refresh was requested before that one.
C33_StartupGating ==
    [][StartupEntry =>
          /\ (LegacyCount' < expected_entries) => ~call'.first_refresh
          /\ (LegacyCount' = expected_entries
              /\ call'.config.pa_sensor_id \notin DOMAIN legacy_sensors) =>
                 (call'.first_refresh /\ expected_entries' = 0)
          /\ call'.first_refresh => refreshes = 0
      ]_vars

\* C33, amended: while N > 0 entries are expected the first refresh is
\* requested exactly by the setups that leave N sensors registered; when
\* it succeeds expected_entries becomes 0, and when it fails the setup
\* raises ConfigEntryNotReady, expected_entries stays N and the data is
\* as before, so that the next setup of the entry requests it again.
C33_StartupGatingUntilSuccess ==
    [][StartupEntry =>
          /\ call'.first_refresh <=> LegacyCount' = expected_entries
          /\ call'.first_refresh =>
                IF raised' = ""
                THEN expected_entries' = 0
                ELSE /\ raised' = "ConfigEntryNotReady"
                     /\ expected_entries' = expected_entries
                     /\ coordinator_data' = coordinator_data
          /\ ~call'.first_refresh =>
                (raised' = "" /\ expected_entries' = expected_entries)
      ]_vars

\* The second of two expected entries was set up again after its first
\* refresh had failed, and the refresh failed again.
C33_Witness ==
    /\ call.fn = "async_setup_entry"
    /\ call.first_refresh
    /\ raised = "ConfigEntryNotReady"
    /\ expected_entries = 2
    /\ LegacyCount = 2
    /\ refreshes = 2

\* The entry a registration asks for.
V1Entry(config) ==
    [pa_sensor_id |-> config.pa_sensor_id, name |-> config.name,
     hidden |-> config.hidden, read_key |-> config.read_key]

LegacyEntry(config) ==
    [pa_sensor_id |-> config.pa_sensor_id, title |-> config.title,
     hidden |-> config.hidden, key |-> config.key]

\* What a registration of `id` with `entry` does to a registry: nothing
\* when the id is registered, else one id more, with that entry.
Registers(before, after, id, entry) ==
    IF id \in DOMAIN before
    THEN after = before
    ELSE /\ DOMAIN after = DOMAIN before \cup {id}
         /\ after[id] = entry
         /\ \A x \in DOMAIN before : after[x] = before[x]
         /\ Cardinality(DOMAIN after) = Cardinality(DOMAIN before) + 1

\* What an unregistration of `id` does: nothing when the id is not
\* registered, else one id less.
Unregisters(before, after, id) ==
    IF id \notin DOMAIN before
    THEN after = before
    ELSE /\ DOMAIN after = DOMAIN before \ {id}
         /\ \A x \in DOMAIN after : after[x] = before[x]
         /\ Cardinality(DOMAIN after) = Cardinality(DOMAIN before) - 1

\* C34: in both APIs register_sensor of a registered id changes nothing
\* (the first name, hidden flag and key stay), unregister_sensor of an id
\* that is not registered changes nothing, and get_sensor_count is the
\* number of ids registered and not unregistered since: one more after a
\* new registration, one less after the unregistration of a registered id.
C34_Registry ==
    [][/\ (call'.fn = "v1.register_sensor") =>
             /\ Registers(v1_sensors, v1_sensors', call'.config.pa_sensor_id,
                          V1Entry(call'.config))
             /\ get_sensor_count(v1_sensors') = Cardinality(DOMAIN v1_sensors')
       /\ (call'.fn = "v1.unregister_sensor") =>
             /\ Unregisters(v1_sensors, v1_sensors', call'.pa_sensor_id)
             /\ get_sensor_count(v1_sensors') = Cardinality(DOMAIN v1_sensors')
       /\ (call'.fn = "legacy.register_sensor") =>
             /\ Registers(legacy_sensors, legacy_sensors',
                          call'.config.pa_sensor_id, LegacyEntry(call'.config))
             /\ legacy_get_sensor_count(legacy_sensors')
                    = Cardinality(DOMAIN legacy_sensors')
       /\ (call'.fn = "legacy.unregister_sensor") =>
             /\ Unregisters(legacy_sensors, legacy_sensors', call'.pa_sensor_id)
             /\ legacy_get_sensor_count(legacy_sensors')
                    = Cardinality(DOMAIN legacy_sensors')
      ]_vars

\* Station 100 was registered with the legacy API as a hidden sensor with
\* the key K1 and then again as a public one: it is still hidden.
C34_Witness ==
    /\ call.fn = "legacy.register_sensor"
    /\ call.config.pa_sensor_id = "100"
    /\ ~call.config.hidden
    /\ "100" \in DOMAIN legacy_sensors
    /\ legacy_sensors["100"].hidden
    /\ legacy_sensors["100"].key = "K1"
    /\ DOMAIN v1_sensors = {"200"}

----------------------------------------------------------------------------
(* Properties of the coordinator                                           *)

\* The step is a call of _async_update_data.
UpdateCalled == call'.fn \in {"_async_update_data", "async_update", "session.get"}

\* C35: the coordinator has an API instance exactly when its
\* get_sensor_count is above 0, before and after every step, and a call
\* of _async_update_data with no station registered returns {} and makes
\* no request.
C35_ApiIffSensors ==
    [][/\ api <=> coordinator_get_sensor_count(api, api_sensors) > 0
       /\ api' <=> coordinator_get_sensor_count(api', api_sensors') > 0
       /\ (UpdateCalled /\ coordinator_get_sensor_count(api, api_sensors) = 0) =>
             /\ call'.fn = "_async_update_data"
             /\ sensor_data' = <<>>
             /\ raised' = ""
             /\ request' = request
      ]_vars

\* _async_update_data returned {} after the stations of an earlier request
\* were all unregistered.
C35_Witness ==
    /\ call.fn = "_async_update_data"
    /\ ~api
    /\ sensor_data = <<>>
    /\ request # <<>>
    /\ request[1].show_only = {"100", "200"}

----------------------------------------------------------------------------
(* Properties of the legacy URLs                                           *)

\* The places of the URLs where an id appears: <<URL, position>>.
Places(urls, id) ==
    {p \in UNION {{<<j, i>> : i \in DOMAIN urls[j].sensors} : j \in DOMAIN urls} :
        urls[p[1]].sensors[p[2]] = id}

\* C37: every registered public sensor appears in exactly one URL of
\* _build_api_urls, whatever hidden sensors are registered, with a key or
\* without, and every hidden sensor with a key appears in exactly one
\* URL, the one of its key.
C37_OneUrlEach ==
    (call.fn = "_build_api_urls") =>
        \A id \in DOMAIN legacy_sensors :
            /\ ~legacy_sensors[id].hidden =>
                   Cardinality(Places(ret.value, id)) = 1
            /\ (legacy_sensors[id].hidden /\ legacy_sensors[id].key # "") =>
                   /\ Cardinality(Places(ret.value, id)) = 1
                   /\ \A p \in Places(ret.value, id) :
                          ret.value[p[1]].key = legacy_sensors[id].key

----------------------------------------------------------------------------
(* Properties of the config flow                                           *)

FlowCalled == call.fn \in {"async_step_user", "async_step_add_sensor"}

\* C38: _get_sensor_config returns a config and no error, or None and at
\* least one error; a step creates the entry only for a config without
\* errors, and with errors it shows its own form again, with them.
C38_ConfigXorErrors ==
    (FlowCalled /\ ret.called) =>
        /\ \/ ret.value # <<>> /\ ret.errors = {}
           \/ ret.value = <<>> /\ ret.errors # {}
        /\ (ret.result.type = "create_entry") =>
               (ret.value # <<>> /\ ret.errors = {})
        /\ (ret.value = <<>>) =>
               /\ ret.result.type = "form"
               /\ "async_step_" \o ret.result.step_id = call.fn
               /\ ret.result.errors = ret.errors
               /\ ret.result.errors # {}

\* The add_sensor step showed its form again after the server answered
\* the sensor request with 401, which ends in an unknown error.
C38_Witness ==
    /\ call.fn = "async_step_add_sensor"
    /\ ret.called
    /\ call.sensor.status = 401
    /\ ret.result.type = "form"
    /\ ret.result.step_id = "add_sensor"
    /\ ret.result.errors = {<<"base", <<"unknown", "">>>>}

====
